---- MODULE Spec2Model ----
(***************************************************************************)
(* A model of the wormhole client library (src/wormhole):                  *)
(*   connection.py   the per-thread connection stack and connection_context*)
(*   transaction.py  the transaction() scope with its retry loop, the      *)
(*                   read_only_transaction() and savepoint() scopes        *)
(*   remote.py       RemoteFunction: install once, then invoke             *)
(*   query.py        WormholeCursor: construction, execute, the fetches    *)
(* Each component has its own specification over the same variables:      *)
(*   SpecConn      one caller on the connection stack, every call observed *)
(*   SpecThreads   two threads on the connection stack, any interleaving   *)
(*   SpecTxn       one `with transaction(max_retries):` statement          *)
(*   SpecRemote    one caller invoking one remote function repeatedly      *)
(*   SpecCursor    one cursor: executes and fetches, in either mode        *)
(*   SpecConstruct cursor construction against a changing stack            *)
(*   SpecSql       placeholder translation of execute, in either mode      *)
(*   SpecScopes    transaction, read-only and savepoint scopes and remote  *)
(*                 calls, with and without a current connection            *)
(*   SpecRace      two threads making the first call of one function       *)
(*   SpecModes     one cursor in the engine, the same calls on a cursor    *)
(*                 of an external client beside it                         *)
(*   SpecClassify  a transaction scope over failures with sample messages  *)
(*   SpecNested    a savepoint scope inside a transaction scope            *)
(*   SpecInvoking  a transaction scope whose unit of work calls a remote   *)
(*                 function                                                *)
(*   SpecTxnFair   SpecTxn with the thread kept running, for termination   *)
(*   SpecSwitching a transaction scope whose unit of work changes the      *)
(*                 current connection between cursor and remote calls      *)
(* Environment: conn.rollback() returns, and so does ROLLBACK TO SAVEPOINT *)
(* of a savepoint that was established; conn.commit(), every other         *)
(* statement, the unit of work and the engine's install and invoke calls   *)
(* may raise; every failure is an instance of Exception; the engine's      *)
(* reply to a query is well-formed (its rows are a list of dicts).         *)
(***************************************************************************)
EXTENDS Integers, Sequences, FiniteSets, TLC

(* ------------------------------------------------------------------ *)
(* Bounds of the model                                                 *)
(* ------------------------------------------------------------------ *)
\* deepest connection stack explored
MaxDepth == 2
\* pops recorded after the last push (pops on the empty stack included)
MaxPops == 3
\* open connection_context blocks per thread
MaxNest == 2
\* largest max_retries a transaction scope is given
MaxRetries == 3
\* invocations of the remote function explored
MaxCalls == 3
\* calls made on the cursor (construction, execute, fetches)
MaxCursorCalls == 5
\* rows of a result set
MaxRows == 3
\* unlabeled markers in a statement
MaxMarkers == 10
\* numbered markers in a statement, and parameters passed with it
MaxMarks == 3
\* savepoint scopes entered
MaxSavepoints == 2

(* ------------------------------------------------------------------ *)
(* Values                                                              *)
(* ------------------------------------------------------------------ *)
\* Python's None
None == "None"
\* threads of the host process
Threads == {"t1", "t2"}
\* connection handles (opaque to the library)
Handles == {"A", "B"}

top(s) == s[Len(s)]
butlast(s) == SubSeq(s, 1, Len(s) - 1)
Max(a, b) == IF a >= b THEN a ELSE b

(* ------------------------------------------------------------------ *)
(* Text                                                                *)
(* ------------------------------------------------------------------ *)
\* text is a sequence of one-character strings
UpperCase ==
    <<"A", "B", "C", "D", "E", "F", "G", "H", "I", "J", "K", "L", "M", "N",
    "O", "P", "Q", "R", "S", "T", "U", "V", "W", "X", "Y", "Z">>
LowerCase ==
    <<"a", "b", "c", "d", "e", "f", "g", "h", "i", "j", "k", "l", "m", "n",
    "o", "p", "q", "r", "s", "t", "u", "v", "w", "x", "y", "z">>
Digits ==
    <<"0", "1", "2", "3", "4", "5", "6", "7", "8", "9">>

\* the five entries of retryable_conditions
SerializationFailure ==
    <<"s", "e", "r", "i", "a", "l", "i", "z", "a", "t", "i", "o", "n", " ",
    "f", "a", "i", "l", "u", "r", "e">>
DeadlockDetected ==
    <<"d", "e", "a", "d", "l", "o", "c", "k", " ", "d", "e", "t", "e", "c",
    "t", "e", "d">>
CannotExecute ==
    <<"c", "a", "n", "n", "o", "t", " ", "e", "x", "e", "c", "u", "t", "e">>
ReadOnlyTransaction ==
    <<"r", "e", "a", "d", "-", "o", "n", "l", "y", " ", "t", "r", "a", "n",
    "s", "a", "c", "t", "i", "o", "n">>
CouldNotSerialize ==
    <<"c", "o", "u", "l", "d", " ", "n", "o", "t", " ", "s", "e", "r", "i",
    "a", "l", "i", "z", "e">>

\* messages of the failures a unit of work raises in this model
MsgSerialize ==
    <<"c", "o", "u", "l", "d", " ", "n", "o", "t", " ", "s", "e", "r", "i",
    "a", "l", "i", "z", "e", " ", "a", "c", "c", "e", "s", "s">>
MsgDeadlock ==
    <<"d", "e", "a", "d", "l", "o", "c", "k", " ", "d", "e", "t", "e", "c",
    "t", "e", "d">>
MsgDeadlockCaps ==
    <<"E", "R", "R", "O", "R", ":", " ", "D", "e", "a", "d", "l", "o", "c",
    "k", " ", "D", "e", "t", "e", "c", "t", "e", "d">>
MsgBoom ==
    <<"d", "i", "v", "i", "s", "i", "o", "n", " ", "b", "y", " ", "z", "e",
    "r", "o">>

\* fixed texts of the errors the library and contextlib raise
TxtFailedAfter ==
    <<"T", "r", "a", "n", "s", "a", "c", "t", "i", "o", "n", " ", "f", "a",
    "i", "l", "e", "d", " ", "a", "f", "t", "e", "r", " ">>
TxtRetries ==
    <<" ", "r", "e", "t", "r", "i", "e", "s", ":", " ">>
TxtNoConnection ==
    <<"N", "o", " ", "d", "a", "t", "a", "b", "a", "s", "e", " ", "c", "o",
    "n", "n", "e", "c", "t", "i", "o", "n", " ", "s", "e", "t", ".">>
TxtDidntYield ==
    <<"g", "e", "n", "e", "r", "a", "t", "o", "r", " ", "d", "i", "d", "n",
    "'", "t", " ", "y", "i", "e", "l", "d">>
TxtDidntStop ==
    <<"g", "e", "n", "e", "r", "a", "t", "o", "r", " ", "d", "i", "d", "n",
    "'", "t", " ", "s", "t", "o", "p">>
TxtDidntStopAfterThrow ==
    <<"g", "e", "n", "e", "r", "a", "t", "o", "r", " ", "d", "i", "d", "n",
    "'", "t", " ", "s", "t", "o", "p", " ", "a", "f", "t", "e", "r", " ",
    "t", "h", "r", "o", "w", "(", ")">>

VARIABLES
    \* connection.py
    stack,      \* _connection_stack.stack, one list per thread-local slot
    hasStack,   \* hasattr(_connection_stack, 'stack') per thread-local slot
    ctxs,       \* per thread: self.conn of each connection_context whose block is open
    lastOp,     \* per thread: the most recent call, its argument and what it returned
    \* observations of the calls (history, not read by the program)
    own,        \* per thread: the handles it pushed and has not popped, oldest first
    pushed,     \* per thread: the handles live at its most recent push, oldest first
    popped,     \* per thread: what each pop since that push returned
    entries,    \* per thread: the stack found at the entry of each open block
    \* transaction.py: one `with transaction(max_retries):` statement of thread t1
    pc,         \* where the with statement is: "start", "body", "leaving", "exited"
    max_retries,\* the max_retries argument
    gen,        \* the generator's locals: conn, attempt, last_error
    script,     \* what the k-th execution of the unit of work does: "ok" or a failure
    executions, \* how often the unit of work has been executed
    pending,    \* the failure the unit of work has just raised, or None
    oplog,      \* the calls made so far: rollback, commit, sleep, the unit of work
    result,     \* what the with statement delivered to its caller
    \* remote.py: one RemoteFunction object
    installed,  \* self._installed
    func_id,    \* self.func_id
    rcall,      \* per thread: where its running __call__ is, and its arguments
    rres,       \* per thread: what its most recent __call__ returned or raised
    rpcLog,     \* the install and invoke calls issued so far, with their replies
    calls,      \* how many invocations have been started
    \* query.py: the process's execution mode and one WormholeCursor object
    server_side,\* _EXECUTION_CONTEXT["server_side"]
    cur,        \* the cursor's fields; made says whether __init__ has completed
    sent,       \* what reached the driver and the engine: cursors created, statements
    got,        \* the rows the fetch calls have returned since the last execute
    qres,       \* what the most recent cursor call returned or raised
    ncalls,     \* how many cursor calls have been made
    twin,       \* the same calls made in a process in external-client mode:
                \* that cursor's fields and what its most recent call returned
    \* transaction.py: savepoint() and read_only_transaction() scopes of thread t1
    sps,        \* the open savepoint scopes, innermost last: name and connection
    ro,         \* where the `with read_only_transaction():` statement is
    sres        \* what the most recent savepoint or read-only scope delivered

connVars == <<stack, hasStack, ctxs, lastOp, own, pushed, popped, entries>>
obsVars == <<pushed, popped, entries>>
txnVars == <<pc, max_retries, gen, script, executions, pending, oplog, result>>
rfVars == <<installed, func_id, rcall, rres, rpcLog, calls>>
qVars == <<server_side, cur, sent, got, qres, ncalls, twin>>
scVars == <<sps, ro, sres>>
vars == <<stack, hasStack, ctxs, lastOp, own, pushed, popped, entries,
          pc, max_retries, gen, script, executions, pending, oplog, result,
          installed, func_id, rcall, rres, rpcLog, calls,
          server_side, cur, sent, got, qres, ncalls, twin, sps, ro, sres>>

(* ------------------------------------------------------------------ *)
(* connection.py                                                       *)
(* ------------------------------------------------------------------ *)

\* A module-global list instead of threading.local(): every thread uses one slot.
StackKeyShared(t) == "t1"
\* _connection_stack = threading.local(): the slot a thread's attribute lives in
StackKey(t) == t

\* list.pop(0) instead of list.pop()
list_pop_first(s) == [ret |-> s[1], rest |-> SubSeq(s, 2, Len(s))]
\* list.pop(): removes and returns the last element
list_pop(s) == [ret |-> top(s), rest |-> butlast(s)]

\* the list a thread sees: no attribute yet reads as empty
stack_of(t) == IF hasStack[StackKey(t)] THEN stack[StackKey(t)] ELSE <<>>

\* get_connection() that pops what it returns
get_connection_popping(t) ==
    IF ~hasStack[StackKey(t)] \/ stack[StackKey(t)] = <<>>
    THEN [ret |-> None, rest |-> stack_of(t)]
    ELSE [ret |-> top(stack[StackKey(t)]), rest |-> butlast(stack[StackKey(t)])]
\* get_connection(): top of this thread's stack, None when unset or empty;
\* the list is left as it is
get_connection(t) ==
    IF ~hasStack[StackKey(t)] \/ stack[StackKey(t)] = <<>>
    THEN [ret |-> None, rest |-> stack_of(t)]
    ELSE [ret |-> top(stack[StackKey(t)]), rest |-> stack[StackKey(t)]]

\* pop_connection() without the emptiness guard: list.pop() on [] raises IndexError
pop_connection_unguarded(t) ==
    IF stack_of(t) = <<>>
    THEN [ret |-> None, rest |-> <<>>, raised |-> TRUE]
    ELSE [ret |-> list_pop(stack_of(t)).ret,
          rest |-> list_pop(stack_of(t)).rest, raised |-> FALSE]
\* pop_connection(): the value returned and the list left behind
pop_connection(t) ==
    IF ~hasStack[StackKey(t)] \/ stack[StackKey(t)] = <<>>
    THEN [ret |-> None, rest |-> stack_of(t), raised |-> FALSE]
    ELSE [ret |-> list_pop(stack[StackKey(t)]).ret,
          rest |-> list_pop(stack[StackKey(t)]).rest, raised |-> FALSE]

\* set_connection(conn): create the list on first use, append
set_connection(t, h) ==
    /\ stack' = [stack EXCEPT ![StackKey(t)] = Append(stack_of(t), h)]
    /\ hasStack' = [hasStack EXCEPT ![StackKey(t)] = TRUE]

\* a call that leaves list `rest` in the thread's slot (no attribute is created)
leave(t, rest) ==
    /\ stack' = IF hasStack[StackKey(t)]
                THEN [stack EXCEPT ![StackKey(t)] = rest]
                ELSE stack
    /\ hasStack' = hasStack

Op(op, arg, ret, raised) == [op |-> op, arg |-> arg, ret |-> ret, raised |-> raised]

\* a caller runs set_connection(h)
SetConnection(t, h) ==
    /\ Len(stack_of(t)) < MaxDepth
    /\ set_connection(t, h)
    /\ lastOp' = [lastOp EXCEPT ![t] = Op("set", h, None, FALSE)]
    /\ UNCHANGED ctxs

\* a caller runs get_connection()
GetConnection(t) ==
    /\ leave(t, get_connection(t).rest)
    /\ lastOp' = [lastOp EXCEPT ![t] = Op("get", None, get_connection(t).ret, FALSE)]
    /\ UNCHANGED ctxs

\* a caller runs pop_connection()
PopConnection(t) ==
    /\ leave(t, pop_connection(t).rest)
    /\ lastOp' = [lastOp EXCEPT ![t] =
          Op("pop", None, pop_connection(t).ret, pop_connection(t).raised)]
    /\ UNCHANGED ctxs

\* connection_context.__exit__ that pops only when the block ended normally
ctx_exit_pop_on_success(exc) == [pop |-> exc = None, suppress |-> FALSE]
\* connection_context.__exit__ that returns True
ctx_exit_suppress(exc) == [pop |-> TRUE, suppress |-> TRUE]
\* connection_context.__exit__(exc_type, ...): pop_connection(); return False
ctx_exit(exc) == [pop |-> TRUE, suppress |-> FALSE]

\* connection_context.__enter__ that only returns the handle
ctx_enter_no_push(t, h) == UNCHANGED <<stack, hasStack>>
\* connection_context.__enter__: set_connection(self.conn); return self.conn
ctx_enter(t, h) == set_connection(t, h)

\* with connection_context(h): the block is entered
CtxEnter(t, h) ==
    /\ Len(stack_of(t)) < MaxDepth
    /\ Len(ctxs[t]) < MaxNest
    /\ ctx_enter(t, h)
    /\ ctxs' = [ctxs EXCEPT ![t] = Append(@, h)]
    /\ lastOp' = [lastOp EXCEPT ![t] = Op("enter", h, h, FALSE)]

\* the innermost open block ends, normally (exc = None) or by error exc; ret is
\* the error that leaves the with statement
CtxExit(t, exc) ==
    /\ ctxs[t] # <<>>
    /\ IF ctx_exit(exc).pop
       THEN leave(t, pop_connection(t).rest)
       ELSE UNCHANGED <<stack, hasStack>>
    /\ ctxs' = [ctxs EXCEPT ![t] = butlast(@)]
    /\ lastOp' = [lastOp EXCEPT ![t] =
          Op("exit", exc, IF ctx_exit(exc).suppress THEN None ELSE exc, FALSE)]

\* errors a with-block can end by
BlockErrors == {"ValueError"}

(* Observation of a call of thread t, from the call itself (lastOp') and the *)
(* state it started in.                                                      *)
IsPush(o) == o.op \in {"set", "enter"}
IsPop(o) == o.op = "pop" \/ (o.op = "exit" /\ ctx_exit(o.arg).pop)

\* the handles the thread itself pushed and has not popped
Owns(t) ==
    own' = [own EXCEPT ![t] =
        IF IsPush(lastOp'[t]) THEN Append(@, lastOp'[t].arg)
        ELSE IF IsPop(lastOp'[t]) /\ @ # <<>> THEN butlast(@)
        ELSE @]

\* the run of pops since the last push, and the stack each open block found
Observe(t) ==
    /\ pushed' = [pushed EXCEPT ![t] =
          IF IsPush(lastOp'[t])
          THEN Append(SubSeq(@, 1, Max(0, Len(@) - Len(popped[t]))), lastOp'[t].arg)
          ELSE @]
    /\ popped' = [popped EXCEPT ![t] =
          IF IsPush(lastOp'[t]) THEN <<>>
          ELSE IF IsPop(lastOp'[t]) THEN Append(@, pop_connection(t).ret)
          ELSE @]
    /\ Len(popped'[t]) <= MaxPops
    /\ entries' = [entries EXCEPT ![t] =
          IF lastOp'[t].op = "enter" THEN Append(@, stack_of(t))
          ELSE IF lastOp'[t].op = "exit" THEN butlast(@)
          ELSE @]

(* ------------------------------------------------------------------ *)
(* transaction.py                                                      *)
(* ------------------------------------------------------------------ *)

\* str.lower() of one character
lower_char(c) ==
    IF \E i \in 1..Len(UpperCase) : UpperCase[i] = c
    THEN LowerCase[CHOOSE i \in 1..Len(UpperCase) : UpperCase[i] = c]
    ELSE c
\* str.lower()
lower(s) == [i \in 1..Len(s) |-> lower_char(s[i])]
\* Python's `needle in hay` on strings
contains(hay, needle) ==
    \E i \in 0..(Len(hay) - Len(needle)) : SubSeq(hay, i + 1, i + Len(needle)) = needle

retryable_conditions ==
    <<SerializationFailure, DeadlockDetected, CannotExecute, ReadOnlyTransaction,
      CouldNotSerialize>>

\* a classifier that compares without lowering the message
is_retryable_case_sensitive(exc) ==
    \E k \in 1..Len(retryable_conditions) : contains(exc.msg, retryable_conditions[k])
\* a classifier that takes every failure for a conflict
is_retryable_always(exc) == TRUE
\* _is_retryable_error(exc): any(cond in str(exc).lower() for cond in ...)
is_retryable_error(exc) ==
    \E k \in 1..Len(retryable_conditions) :
        contains(lower(exc.msg), retryable_conditions[k])

\* an exception object: its type, str(exc) and __cause__
Exc(type, msg, cause) == [type |-> type, msg |-> msg, cause |-> cause]
\* no exception; an exception's cause is given by the cause's message, <<>> for none
NoExc == Exc("None", <<>>, <<>>)

\* the failures a unit of work (or a commit) raises in this model; all are
\* instances of Exception
Failures ==
    [ serialize |-> Exc("OperationalError", MsgSerialize, <<>>),
      deadlock |-> Exc("OperationalError", MsgDeadlock, <<>>),
      deadlock_caps |-> Exc("DatabaseError", MsgDeadlockCaps, <<>>),
      boom |-> Exc("ZeroDivisionError", MsgBoom, <<>>) ]
FailureNames == DOMAIN Failures
Outcomes == {"ok"} \cup FailureNames

\* retry_delay=0.1 seconds, in milliseconds
retry_delay == 100

\* TransactionRetryError(f"Transaction failed after {max_retries} retries: {str(e)}") from e
TransactionRetryError(n, e) ==
    Exc("TransactionRetryError",
        TxtFailedAfter \o <<Digits[n + 1]>> \o TxtRetries \o e.msg, e.msg)

\* entries of oplog: the call, the connection it went to, its argument (the
\* seconds slept in milliseconds, the number of the execution) and how it ended
\* ("ok" or the name of the failure it raised)
Rollback(c) == [op |-> "rollback", conn |-> c, arg |-> 0, res |-> "ok"]
Commit(c, res) == [op |-> "commit", conn |-> c, arg |-> 0, res |-> res]
Sleep(d) == [op |-> "sleep", conn |-> None, arg |-> d, res |-> "ok"]
Work(k, res) == [op |-> "work", conn |-> None, arg |-> k, res |-> res]

\* what running the generator up to its next suspension gives: its locals, the
\* calls it made, and how it stopped: "yield", "return" or "raise" (of exc)
Ran(g, ops, out, exc) == [gen |-> g, ops |-> ops, out |-> out, exc |-> exc]

\* the top of `while attempt <= max_retries:` up to the yield (lines 67-72)
loop_top(g, n, ops) ==
    IF g.attempt <= n
    THEN Ran(g, ops \o <<Rollback(g.conn)>>, "yield", NoExc)
    ELSE Ran(g, ops, "return", NoExc)

\* the handler without its rollback
on_error_no_rollback(g, n, e, ops) ==
    IF is_retryable_error(e)
    THEN IF g.attempt + 1 <= n
         THEN loop_top([g EXCEPT !.attempt = @ + 1, !.last_error = e], n,
                       ops \o <<Sleep(retry_delay * 2 ^ g.attempt)>>)
         ELSE Ran([g EXCEPT !.attempt = @ + 1, !.last_error = e],
                  ops, "raise", TransactionRetryError(n, e))
    ELSE Ran(g, ops, "raise", e)
\* `except Exception as e:` (lines 78-99): rollback, classify, then continue,
\* raise TransactionRetryError or re-raise
on_error(g, n, e, ops) ==
    IF is_retryable_error(e)
    THEN IF g.attempt + 1 <= n
         THEN loop_top([g EXCEPT !.attempt = @ + 1, !.last_error = e], n,
                       ops \o <<Rollback(g.conn), Sleep(retry_delay * 2 ^ g.attempt)>>)
         ELSE Ran([g EXCEPT !.attempt = @ + 1, !.last_error = e],
                  ops \o <<Rollback(g.conn)>>, "raise", TransactionRetryError(n, e))
    ELSE Ran(g, ops \o <<Rollback(g.conn)>>, "raise", e)

\* the generator from its start to the first suspension (lines 57-72)
gen_start(conn, n) ==
    IF conn = None
    THEN Ran([conn |-> None, attempt |-> 0, last_error |-> NoExc], <<>>, "raise",
             Exc("RuntimeError", TxtNoConnection, <<>>))
    ELSE loop_top([conn |-> conn, attempt |-> 0, last_error |-> NoExc], n, <<>>)

\* the generator resumed without the commit
gen_next_no_commit(g, n, committed) == Ran(g, <<>>, "return", NoExc)
\* a generator that commits on whatever connection is current when it is resumed
gen_next_on_current(g, n, committed) ==
    IF committed = "ok"
    THEN Ran(g, <<Commit(get_connection("t1").ret, "ok")>>, "return", NoExc)
    ELSE on_error(g, n, Failures[committed],
                  <<Commit(get_connection("t1").ret, committed)>>)
\* the generator resumed by next() after the yield (lines 74-76): commit and
\* return; a commit that raises (committed names the failure) is handled like a
\* failure of the unit of work
gen_next(g, n, committed) ==
    IF committed = "ok"
    THEN Ran(g, <<Commit(g.conn, "ok")>>, "return", NoExc)
    ELSE on_error(g, n, Failures[committed], <<Commit(g.conn, committed)>>)

\* the generator resumed by throw(e) at the yield
gen_throw(g, n, e) == on_error(g, n, e, <<>>)

\* @contextmanager, __enter__: the error it raises, or NoExc when the block is entered
cm_enter(r) ==
    CASE r.out = "yield" -> NoExc
      [] r.out = "return" -> Exc("RuntimeError", TxtDidntYield, <<>>)
      [] r.out = "raise" -> r.exc

\* @contextmanager, __exit__: what the with statement does after the generator
\* was resumed (by next() when value is NoExc, else by throw(value)): "done"
\* with the error that leaves the statement, or NoExc
cm_exit(r, value) ==
    CASE r.out = "return" -> NoExc
      [] r.out = "raise" -> r.exc
      [] r.out = "yield" ->
            IF value = NoExc
            THEN Exc("RuntimeError", TxtDidntStop, <<>>)
            ELSE Exc("RuntimeError", TxtDidntStopAfterThrow, value.msg)

NoResult == [kind |-> "none", err |-> NoExc]
Delivered(err) == IF err = NoExc THEN [kind |-> "ok", err |-> NoExc]
                  ELSE [kind |-> "error", err |-> err]

\* `with transaction(max_retries):` is entered
TxnEnter ==
    /\ pc = "start"
    /\ LET r == gen_start(get_connection("t1").ret, max_retries) IN
        /\ gen' = r.gen
        /\ oplog' = oplog \o r.ops
        /\ IF cm_enter(r) = NoExc
           THEN pc' = "body" /\ result' = result
           ELSE pc' = "exited" /\ result' = Delivered(cm_enter(r))
    /\ UNCHANGED <<connVars, rfVars, qVars, scVars, max_retries, script, executions, pending>>

\* the unit of work runs once, as the script says
UnitOfWork ==
    /\ pc = "body"
    /\ executions' = executions + 1
    /\ oplog' = Append(oplog, Work(executions + 1, script[executions + 1]))
    /\ pending' = IF script[executions + 1] = "ok" THEN NoExc
                  ELSE Failures[script[executions + 1]]
    /\ pc' = "leaving"
    /\ UNCHANGED <<connVars, rfVars, qVars, scVars, max_retries, gen, script, result>>

\* the with statement is left after a unit of work that completed
TxnExitNormal(committed) ==
    /\ pc = "leaving"
    /\ pending = NoExc
    /\ LET r == gen_next(gen, max_retries, committed) IN
        /\ gen' = r.gen
        /\ oplog' = oplog \o r.ops
        /\ result' = Delivered(cm_exit(r, NoExc))
    /\ pc' = "exited"
    /\ pending' = NoExc
    /\ UNCHANGED <<connVars, rfVars, qVars, scVars, max_retries, script, executions>>

\* the with statement is left by the failure the unit of work raised
TxnExitError ==
    /\ pc = "leaving"
    /\ pending # NoExc
    /\ LET r == gen_throw(gen, max_retries, pending) IN
        /\ gen' = r.gen
        /\ oplog' = oplog \o r.ops
        /\ result' = Delivered(cm_exit(r, pending))
    /\ pc' = "exited"
    /\ UNCHANGED <<connVars, rfVars, qVars, scVars, max_retries, script, executions, pending>>

TxnIdle ==
    /\ pc = "idle"
    /\ max_retries = 0
    /\ gen = [conn |-> None, attempt |-> 0, last_error |-> NoExc]
    /\ script = <<>>
    /\ executions = 0
    /\ pending = NoExc
    /\ oplog = <<>>
    /\ result = NoResult

\* "no such savepoint"
MsgNoSavepoint ==
    <<"n", "o", " ", "s", "u", "c", "h", " ", "s", "a", "v", "e", "p", "o", "i", "n", "t">>
\* the failure of a ROLLBACK TO SAVEPOINT statement
RollbackToFailed == Exc("InternalError", MsgNoSavepoint, <<>>)

\* entry of oplog for cur.execute(sql) on a cursor of connection c: the
\* statement, the savepoint name in it ("" for none) and how it ended
Statement(c, sql, name, res) ==
    [op |-> "execute", conn |-> c, arg |-> 0, res |-> res, sql |-> sql, name |-> name]

\* savepoint(name): the generator's locals
SpFrame(conn, name) == [conn |-> conn, name |-> name]

\* a handler that issues no ROLLBACK TO SAVEPOINT
sp_on_error_no_rollback_to(g, e, ops, rb_ok) == Ran(g, ops, "raise", e)
\* `except Exception as e:` of savepoint (lines 197-201): ROLLBACK TO SAVEPOINT
\* name, then raise; rb_ok says whether that statement succeeds
sp_on_error(g, e, ops, rb_ok) ==
    IF rb_ok
    THEN Ran(g, ops \o <<Statement(g.conn, "ROLLBACK TO SAVEPOINT", g.name, "ok")>>,
             "raise", e)
    ELSE Ran(g, ops \o <<Statement(g.conn, "ROLLBACK TO SAVEPOINT", g.name, "failed")>>,
             "raise", RollbackToFailed)

\* a savepoint() that does not look for a connection
sp_start_unchecked(conn, name, s, rb_ok) ==
    IF s = "ok"
    THEN Ran(SpFrame(conn, name), <<Statement(conn, "SAVEPOINT", name, "ok")>>,
             "yield", NoExc)
    ELSE sp_on_error(SpFrame(conn, name), Failures[s],
                     <<Statement(conn, "SAVEPOINT", name, s)>>, rb_ok)
\* the savepoint generator from its start to the yield (lines 182-191); s is
\* how the SAVEPOINT statement ends
sp_start(conn, name, s, rb_ok) ==
    IF conn = None
    THEN Ran(SpFrame(None, name), <<>>, "raise",
             Exc("RuntimeError", TxtNoConnection, <<>>))
    ELSE IF s = "ok"
    THEN Ran(SpFrame(conn, name), <<Statement(conn, "SAVEPOINT", name, "ok")>>,
             "yield", NoExc)
    ELSE sp_on_error(SpFrame(conn, name), Failures[s],
                     <<Statement(conn, "SAVEPOINT", name, s)>>, rb_ok)

\* a savepoint() that ends without releasing
sp_next_no_release(g, rel, rb_ok) == Ran(g, <<>>, "return", NoExc)
\* the savepoint generator resumed by next() (lines 193-195): RELEASE SAVEPOINT
\* name, which ends as rel says
sp_next(g, rel, rb_ok) ==
    IF rel = "ok"
    THEN Ran(g, <<Statement(g.conn, "RELEASE SAVEPOINT", g.name, "ok")>>, "return", NoExc)
    ELSE sp_on_error(g, Failures[rel],
                     <<Statement(g.conn, "RELEASE SAVEPOINT", g.name, rel)>>, rb_ok)

\* the savepoint generator resumed by throw(e) at the yield
sp_throw(g, e, rb_ok) == sp_on_error(g, e, <<>>, rb_ok)

\* an error leaves a scope of the unit of work: caught by the caller, or on
\* its way to the scope around it (open are the savepoint scopes still open)
Leaves(err, caught, open) ==
    IF err = NoExc \/ caught THEN pending' = NoExc /\ pc' = pc
    ELSE IF open # <<>> THEN pending' = err /\ pc' = pc
    ELSE IF pc = "body" THEN pending' = err /\ pc' = "leaving"
    ELSE pending' = NoExc /\ pc' = pc

\* the SAVEPOINT statements issued so far
Savepoints == SelectSeq(oplog, LAMBDA e : e.op = "execute" /\ e.sql = "SAVEPOINT")

\* `with savepoint(name):` is entered
SpEnter(name, s, rb_ok, caught) ==
    /\ pending = NoExc
    /\ Len(Savepoints) < MaxSavepoints
    /\ LET r == sp_start(get_connection("t1").ret, name, s, rb_ok) IN
        /\ oplog' = oplog \o r.ops
        /\ IF cm_enter(r) = NoExc
           THEN sps' = Append(sps, r.gen) /\ sres' = sres
           ELSE sps' = sps /\ sres' = Delivered(cm_enter(r))
        /\ Leaves(cm_enter(r), caught, sps)
    /\ UNCHANGED <<connVars, rfVars, qVars, ro, max_retries, gen, script, executions,
                   result>>

\* statements of the unit of work inside the innermost savepoint scope
SpWork(outcome) ==
    /\ sps # <<>>
    /\ pending = NoExc
    /\ top(oplog).op # "work"
    /\ oplog' = Append(oplog, Work(executions + 1, outcome))
    /\ pending' = IF outcome = "ok" THEN NoExc ELSE Failures[outcome]
    /\ UNCHANGED <<connVars, rfVars, qVars, scVars, pc, max_retries, gen, script,
                   executions, result>>

\* the innermost savepoint scope is left after its block completed
SpExitNormal(rel, rb_ok, caught) ==
    /\ sps # <<>>
    /\ pending = NoExc
    /\ LET r == sp_next(top(sps), rel, rb_ok) IN
        /\ oplog' = oplog \o r.ops
        /\ sres' = Delivered(cm_exit(r, NoExc))
        /\ Leaves(cm_exit(r, NoExc), caught, butlast(sps))
    /\ sps' = butlast(sps)
    /\ UNCHANGED <<connVars, rfVars, qVars, ro, max_retries, gen, script, executions,
                   result>>

\* the innermost savepoint scope is left by the failure raised in its block
SpExitError(rb_ok, caught) ==
    /\ sps # <<>>
    /\ pending # NoExc
    /\ LET r == sp_throw(top(sps), pending, rb_ok) IN
        /\ oplog' = oplog \o r.ops
        /\ sres' = Delivered(cm_exit(r, pending))
        /\ Leaves(cm_exit(r, pending), caught, butlast(sps))
    /\ sps' = butlast(sps)
    /\ UNCHANGED <<connVars, rfVars, qVars, ro, max_retries, gen, script, executions,
                   result>>

\* read_only_transaction(): where the with statement is, and the generator's conn
RoAt(at, conn) == [pc |-> at, conn |-> conn]

\* `except Exception as e:` of read_only_transaction (lines 155-157)
ro_on_error(conn, e, ops) == Ran(conn, ops \o <<Rollback(conn)>>, "raise", e)

\* a read-only scope that does not mark the transaction read-only
ro_start_unmarked(conn, s) ==
    IF conn = None
    THEN Ran(None, <<>>, "raise", Exc("RuntimeError", TxtNoConnection, <<>>))
    ELSE Ran(conn, <<Rollback(conn)>>, "yield", NoExc)
\* the read-only generator from its start to the yield (lines 140-150); s is
\* how the SET TRANSACTION READ ONLY statement ends
ro_start(conn, s) ==
    IF conn = None
    THEN Ran(None, <<>>, "raise", Exc("RuntimeError", TxtNoConnection, <<>>))
    ELSE IF s = "ok"
    THEN Ran(conn, <<Rollback(conn),
                     Statement(conn, "SET TRANSACTION READ ONLY", "", "ok")>>,
             "yield", NoExc)
    ELSE ro_on_error(conn, Failures[s],
                     <<Rollback(conn),
                       Statement(conn, "SET TRANSACTION READ ONLY", "", s)>>)

\* the read-only generator resumed by next() (lines 152-153): commit
ro_next(conn, committed) ==
    IF committed = "ok" THEN Ran(conn, <<Commit(conn, "ok")>>, "return", NoExc)
    ELSE ro_on_error(conn, Failures[committed], <<Commit(conn, committed)>>)

\* the read-only generator resumed by throw(e) at the yield
ro_throw(conn, e) == ro_on_error(conn, e, <<>>)

\* `with read_only_transaction():` is entered
RoEnter(s) ==
    /\ ro.pc = "start"
    /\ LET r == ro_start(get_connection("t1").ret, s) IN
        /\ oplog' = oplog \o r.ops
        /\ IF cm_enter(r) = NoExc
           THEN ro' = RoAt("body", r.gen) /\ sres' = sres
           ELSE ro' = RoAt("exited", r.gen) /\ sres' = Delivered(cm_enter(r))
    /\ UNCHANGED <<connVars, rfVars, qVars, sps, pc, max_retries, gen, script,
                   executions, pending, result>>

\* the unit of work of the read-only scope runs
RoWork(outcome) ==
    /\ ro.pc = "body"
    /\ executions' = executions + 1
    /\ oplog' = Append(oplog, Work(executions + 1, outcome))
    /\ pending' = IF outcome = "ok" THEN NoExc ELSE Failures[outcome]
    /\ ro' = RoAt("leaving", ro.conn)
    /\ UNCHANGED <<connVars, rfVars, qVars, sps, sres, pc, max_retries, gen, script,
                   result>>

\* the read-only scope is left after a unit of work that completed
RoExitNormal(committed) ==
    /\ ro.pc = "leaving"
    /\ pending = NoExc
    /\ LET r == ro_next(ro.conn, committed) IN
        /\ oplog' = oplog \o r.ops
        /\ sres' = Delivered(cm_exit(r, NoExc))
    /\ ro' = RoAt("exited", ro.conn)
    /\ UNCHANGED <<connVars, rfVars, qVars, sps, pc, max_retries, gen, script,
                   executions, pending, result>>

\* the read-only scope is left by the failure the unit of work raised
RoExitError ==
    /\ ro.pc = "leaving"
    /\ pending # NoExc
    /\ LET r == ro_throw(ro.conn, pending) IN
        /\ oplog' = oplog \o r.ops
        /\ sres' = Delivered(cm_exit(r, pending))
    /\ ro' = RoAt("exited", ro.conn)
    /\ UNCHANGED <<connVars, rfVars, qVars, sps, pc, max_retries, gen, script,
                   executions, pending, result>>

\* no savepoint or read-only scope
ScIdle ==
    /\ sps = <<>>
    /\ ro = RoAt("idle", None)
    /\ sres = NoResult

(* ------------------------------------------------------------------ *)
(* remote.py                                                           *)
(* ------------------------------------------------------------------ *)

\* installation handles the engine hands out
FuncIds == {"f1", "f2"}

\* replies of the install primitive: the engine call raises, the reply carries
\* no func_id, or it carries a handle and the cached flag
InstallReplies ==
    {[kind |-> k, func_id |-> None, cached |-> FALSE] : k \in {"raise", "malformed"}}
    \cup {[kind |-> "ok", func_id |-> h, cached |-> c] : h \in FuncIds, c \in BOOLEAN}

\* replies of the invoke primitive: an envelope with success true and a result
\* payload, an envelope with success false and the engine's detail, or the
\* engine call raises
Envelope(kind, payload, detail) == [kind |-> kind, payload |-> payload, detail |-> detail]
Payloads == {"p1", "p2"}
Details == {"d1", "d2"}
InvokeReplies ==
    {Envelope("success", v, None) : v \in Payloads}
    \cup {Envelope("failure", None, d) : d \in Details}
    \cup {Envelope("raise", None, None)}

\* entries of rpcLog: the primitive, the calling thread, the connection used,
\* the handle (sent to invoke, returned by install) and the reply
Rpc(ev, t, c, h, res) == [ev |-> ev, by |-> t, conn |-> c, h |-> h, res |-> res]

Idle == [st |-> "idle", bindable |-> TRUE, idx |-> 0]
Returned(v) == [kind |-> "return", err |-> "None", value |-> v]
Raised(e) == [kind |-> "error", err |-> e, value |-> None]

\* __call__ that installs on every invocation
needs_install_always == TRUE
\* `if not self._installed:` in __call__, `if self._installed: return` in
\* _install_on_server
needs_install == ~installed

\* _install_on_server that marks the function installed whatever the reply
install_reply_always_installed(reply) ==
    [func_id |-> reply.func_id, installed |-> TRUE,
     err |-> IF reply.kind = "ok" THEN "None"
             ELSE IF reply.kind = "raise" THEN "InstallError" ELSE "KeyError"]
\* _install_on_server, lines 134-141: execute raises, or result["func_id"]
\* raises KeyError, or func_id and _installed are set
install_reply(reply) ==
    CASE reply.kind = "raise" ->
            [func_id |-> func_id, installed |-> installed, err |-> "InstallError"]
      [] reply.kind = "malformed" ->
            [func_id |-> func_id, installed |-> installed, err |-> "KeyError"]
      [] reply.kind = "ok" ->
            [func_id |-> reply.func_id, installed |-> TRUE, err |-> "None"]

\* thread t calls the remote function; bindable says whether its arguments fit
\* the signature. Not installed: _install_on_server gets the connection and
\* sends wormhole_install. Installed: straight to the invocation.
RfCall(t, bindable) ==
    /\ rcall[t].st = "idle"
    /\ calls < MaxCalls
    /\ calls' = calls + 1
    /\ IF needs_install
       THEN IF get_connection(t).ret = None
            THEN /\ rres' = [rres EXCEPT ![t] = Raised("NoConnection")]
                 /\ UNCHANGED <<rcall, rpcLog>>
            ELSE /\ rpcLog' = Append(rpcLog,
                        Rpc("install", t, get_connection(t).ret, None, "pending"))
                 /\ rcall' = [rcall EXCEPT ![t] =
                        [st |-> "installing", bindable |-> bindable,
                         idx |-> Len(rpcLog) + 1]]
                 /\ rres' = rres
       ELSE /\ rcall' = [rcall EXCEPT ![t] =
                  [st |-> "ready", bindable |-> bindable, idx |-> 0]]
            /\ UNCHANGED <<rres, rpcLog>>
    /\ UNCHANGED <<installed, func_id, connVars, txnVars, qVars, scVars>>

\* the install primitive replies to thread t
RfInstallReturn(t, reply) ==
    /\ rcall[t].st = "installing"
    /\ func_id' = install_reply(reply).func_id
    /\ installed' = install_reply(reply).installed
    /\ rpcLog' = [rpcLog EXCEPT ![rcall[t].idx] =
          [@ EXCEPT !.res = reply.kind, !.h = reply.func_id]]
    /\ IF install_reply(reply).err = "None"
       THEN rcall' = [rcall EXCEPT ![t] = [@ EXCEPT !.st = "ready", !.idx = 0]]
            /\ rres' = rres
       ELSE rcall' = [rcall EXCEPT ![t] = Idle]
            /\ rres' = [rres EXCEPT ![t] = Raised(install_reply(reply).err)]
    /\ UNCHANGED <<calls, connVars, txnVars, qVars, scVars>>

\* thread t goes on to the invocation proper
RfInvoke(t) ==
    /\ rcall[t].st = "ready"
    /\ IF get_connection(t).ret = None
       THEN /\ rres' = [rres EXCEPT ![t] = Raised("NoConnection")]
            /\ rcall' = [rcall EXCEPT ![t] = Idle]
            /\ rpcLog' = rpcLog
       ELSE IF ~rcall[t].bindable
       THEN /\ rres' = [rres EXCEPT ![t] = Raised("TypeError")]
            /\ rcall' = [rcall EXCEPT ![t] = Idle]
            /\ rpcLog' = rpcLog
       ELSE /\ rpcLog' = Append(rpcLog,
                   Rpc("invoke", t, get_connection(t).ret, func_id, "pending"))
            /\ rcall' = [rcall EXCEPT ![t] =
                   [@ EXCEPT !.st = "invoking", !.idx = Len(rpcLog) + 1]]
            /\ rres' = rres
    /\ UNCHANGED <<installed, func_id, calls, connVars, txnVars, qVars, scVars>>

\* a __call__ that returns result.get("result") without looking at success
invoke_reply_unchecked(reply) ==
    IF reply.kind = "raise" THEN Raised("InvokeError") ELSE Returned(reply.payload)
\* lines 173-178: the envelope is checked for success; a failure raises
\* RuntimeError(f"Server-side execution failed: {result}"), which carries the
\* envelope; else result.get("result") is returned
invoke_reply(reply) ==
    CASE reply.kind = "success" -> Returned(reply.payload)
      [] reply.kind = "failure" ->
            [kind |-> "error", err |-> "ExecutionFailed", value |-> reply.detail]
      [] reply.kind = "raise" -> Raised("InvokeError")

\* the invoke primitive replies to thread t (lines 173-178)
RfInvokeReturn(t, reply) ==
    /\ rcall[t].st = "invoking"
    /\ rpcLog' = [rpcLog EXCEPT ![rcall[t].idx] = [@ EXCEPT !.res = reply.kind]]
    /\ rres' = [rres EXCEPT ![t] = invoke_reply(reply)]
    /\ rcall' = [rcall EXCEPT ![t] = Idle]
    /\ UNCHANGED <<installed, func_id, calls, connVars, txnVars, qVars, scVars>>

RfIdle ==
    /\ installed = FALSE
    /\ func_id = None
    /\ rcall = [t \in Threads |-> Idle]
    /\ rres = [t \in Threads |-> [kind |-> "none", err |-> "None", value |-> None]]
    /\ rpcLog = <<>>
    /\ calls = 0

(* ------------------------------------------------------------------ *)
(* query.py                                                            *)
(* ------------------------------------------------------------------ *)

\* the unlabeled marker '%s' and the character that starts a numbered marker
PercentS == <<"%", "s">>
Dollar == <<"$">>

\* str.find(old) + 1: where the first occurrence of old starts, 0 when there is none
find(s, old) ==
    IF contains(s, old)
    THEN CHOOSE i \in 1..Len(s) :
            /\ SubSeq(s, i, i + Len(old) - 1) = old
            /\ \A j \in 1..(i - 1) : SubSeq(s, j, j + Len(old) - 1) # old
    ELSE 0

\* s.replace(old, new, 1): the first occurrence only
replace_first(s, old, new) ==
    LET i == find(s, old) IN
    IF i = 0 THEN s
    ELSE SubSeq(s, 1, i - 1) \o new \o SubSeq(s, i + Len(old), Len(s))

RECURSIVE replace(_, _, _)
\* s.replace(old, new): every occurrence, left to right, without overlap
replace(s, old, new) ==
    LET i == find(s, old) IN
    IF i = 0 THEN s
    ELSE SubSeq(s, 1, i - 1) \o new \o replace(SubSeq(s, i + Len(old), Len(s)), old, new)

RECURSIVE str(_)
\* str(n) of a natural number: its decimal digits
str(n) == IF n < 10 THEN <<Digits[n + 1]>> ELSE str(n \div 10) \o <<Digits[(n % 10) + 1]>>

RECURSIVE to_numbered(_, _)
\* execute, in-engine branch (lines 77-80): while '%s' is in the text, replace
\* its first occurrence by f'${param_num}' and count on
to_numbered(sql, param_num) ==
    IF contains(sql, PercentS)
    THEN to_numbered(replace_first(sql, PercentS, Dollar \o str(param_num)),
                     param_num + 1)
    ELSE sql

RECURSIVE to_unlabeled(_, _)
\* execute, external-client branch (lines 106-110): for i from len(param_list)
\* down to 1, replace every f'${i}' by '%s'
to_unlabeled(sql, i) ==
    IF i > 0
    THEN to_unlabeled(IF contains(sql, Dollar \o str(i))
                      THEN replace(sql, Dollar \o str(i), PercentS) ELSE sql, i - 1)
    ELSE sql

\* a list-valued field that may be None: None itself, or the list
NoneList == [none |-> TRUE, val |-> <<>>]
Some(v) == [none |-> FALSE, val |-> v]

\* a dict is the sequence of its (key, value) items in insertion order
keys(d) == [i \in 1..Len(d) |-> d[i][1]]
\* tuple(row_dict.values())
values(d) == [i \in 1..Len(d) |-> d[i][2]]
\* d[k] = v: a present key keeps its place and takes the new value
setitem(d, k, v) ==
    IF \E i \in 1..Len(d) : d[i][1] = k
    THEN [i \in 1..Len(d) |-> IF d[i][1] = k THEN <<k, v>> ELSE d[i]]
    ELSE Append(d, <<k, v>>)
RECURSIVE dict_zip_from(_, _, _, _)
dict_zip_from(d, columns, row, i) ==
    IF i > Len(columns) \/ i > Len(row) THEN d
    ELSE dict_zip_from(setitem(d, columns[i], row[i]), columns, row, i + 1)
\* dict(zip(columns, row))
dict_zip(columns, row) == dict_zip_from(<<>>, columns, row, 1)

\* the fields __init__ sets before it looks at the execution mode (lines 38-43)
NewCursor(connection) ==
    [made |-> TRUE, connection |-> connection, real_cursor |-> None,
     results |-> NoneList, rowcount |-> -1, description |-> NoneList,
     current_index |-> 0]
\* no cursor object yet
NoCursor == [NewCursor(None) EXCEPT !.made = FALSE]

\* entries of sent: the call (the driver's connection.cursor() and
\* cursor.execute(), the engine's wormhole_query), the connection it went to,
\* the statement and parameters handed over, and the statement execute was given
Sent(call, c, sql, params, given) ==
    [call |-> call, conn |-> c, sql |-> sql, params |-> params, given |-> given]
\* a statement given to execute: its text; for the statements this model
\* builds, also the kind of its markers ("unlabeled", "numbered", "translated"
\* for a text execute produced, "plain" for none) and, for numbered markers, the
\* indices they name from left to right
Stmt(sql, kind, marks) == [sql |-> sql, kind |-> kind, marks |-> marks]
NoStmt == Stmt(<<>>, "none", <<>>)

\* what a cursor call gave its caller: None, one row or a list of rows (as
\* tuples or as dicts), the cursor itself, or the error raised
Ret(call, kind, tuples, dicts, err) ==
    [call |-> call, kind |-> kind, tuples |-> tuples, dicts |-> dicts, err |-> err]
NoRet == Ret("none", "none", <<>>, <<>>, "None")

\* an __init__ that creates the driver cursor without looking for a connection
init_connection_unchecked(srv, connection, current) ==
    [cur |-> [NewCursor(connection) EXCEPT !.real_cursor =
                 IF connection = None THEN current ELSE connection],
     created |-> TRUE, err |-> "None"]
\* WormholeCursor.__init__ (lines 37-54) in execution mode srv, given the
\* connection argument and the top of the caller's connection stack
init_connection(srv, connection, current) ==
    IF ~srv
    THEN LET conn == IF connection = None THEN current ELSE connection IN
         IF conn = None
         THEN [cur |-> NoCursor, created |-> FALSE, err |-> "RuntimeError"]
         ELSE [cur |-> [NewCursor(connection) EXCEPT !.real_cursor = conn],
               created |-> TRUE, err |-> "None"]
    ELSE [cur |-> NewCursor(connection), created |-> FALSE, err |-> "None"]

\* thread t constructs the cursor: WormholeCursor(connection)
CursorInit(t, connection) ==
    /\ ncalls < MaxCursorCalls
    /\ ncalls' = ncalls + 1
    /\ LET r == init_connection(server_side, connection, get_connection(t).ret) IN
        /\ cur' = IF r.err = "None" THEN r.cur ELSE cur
        /\ sent' = IF r.created
                   THEN Append(sent, Sent("cursor", r.cur.real_cursor, <<>>, <<>>, NoStmt))
                   ELSE sent
        /\ got' = IF r.err = "None" THEN <<>> ELSE got
        /\ qres' = IF r.err = "None" THEN Ret("init", "self", <<>>, <<>>, "None")
                   ELSE Ret("init", "error", <<>>, <<>>, r.err)
    /\ UNCHANGED <<server_side, connVars, txnVars, rfVars, scVars>>

\* the engine enters or leaves a wormhole function: _EXECUTION_CONTEXT["server_side"]
SetServerSide(b) ==
    /\ server_side # b
    /\ server_side' = b
    /\ UNCHANGED <<cur, sent, got, qres, ncalls, twin, connVars, txnVars, rfVars, scVars>>

\* what wormhole_query does: it raises, or returns result["rows"] (a list of
\* dicts), with or without result["nrows"]
EngineReply(kind, rows, has_nrows, nrows) ==
    [kind |-> kind, rows |-> rows, has_nrows |-> has_nrows, nrows |-> nrows]
\* what the driver's cursor does: execute raises, or fetchall raises, or it
\* leaves description (None for a statement that returns no rows), the rows
\* fetchall returns (tuples) and rowcount
DriverReply(kind, description, rows, rowcount) ==
    [kind |-> kind, description |-> description, rows |-> rows, rowcount |-> rowcount]

\* the call's effect: the cursor afterwards, what was handed over, the error raised
Executed(c, handed, err) == [cur |-> c, sent |-> handed, err |-> err]

\* execute, in-engine branch (lines 70-98)
execute_server(c, stmt, parameters, reply) ==
    LET converted_sql == to_numbered(stmt.sql, 1)
        handed == <<Sent("wormhole_query", None, converted_sql, parameters, stmt)>>
    IN  IF reply.kind = "raise" THEN Executed(c, handed, "EngineError")
        ELSE Executed(
                [c EXCEPT !.results = Some(reply.rows),
                          !.rowcount = IF reply.has_nrows THEN reply.nrows
                                       ELSE Len(reply.rows),
                          !.current_index = 0,
                          !.description = IF reply.rows # <<>>
                                          THEN Some(keys(reply.rows[1]))
                                          ELSE NoneList],
                handed, "None")

\* an external-client branch that keeps the position of the previous result
execute_client_keep_index(c, stmt, parameters, reply) ==
    LET converted_sql == to_unlabeled(stmt.sql, Len(parameters))
        handed == <<Sent("execute", c.real_cursor, converted_sql, parameters, stmt)>>
    IN  IF c.real_cursor = None THEN Executed(c, <<>>, "AttributeError")
        ELSE IF reply.kind # "ok" THEN Executed(c, handed, "DriverError")
        ELSE IF ~reply.description.none /\ reply.description.val # <<>>
        THEN Executed(
                [c EXCEPT !.results = Some([i \in 1..Len(reply.rows) |->
                                 dict_zip(reply.description.val, reply.rows[i])]),
                          !.description = reply.description,
                          !.rowcount = reply.rowcount],
                handed, "None")
        ELSE Executed(
                [c EXCEPT !.results = Some(<<>>),
                          !.description = NoneList,
                          !.rowcount = reply.rowcount],
                handed, "None")
\* an external-client branch that empties the cursor before it asks the driver
execute_client_clear_first(c, stmt, parameters, reply) ==
    LET handed == <<Sent("execute", c.real_cursor,
                         to_unlabeled(stmt.sql, Len(parameters)), parameters, stmt)>>
        r == execute_client_keep_index(c, stmt, parameters, reply)
    IN  IF r.err = "DriverError"
        THEN Executed([c EXCEPT !.results = Some(<<>>), !.current_index = 0],
                      handed, "DriverError")
        ELSE IF r.err = "None"
        THEN Executed([r.cur EXCEPT !.current_index = 0], r.sent, "None")
        ELSE r
\* execute, external-client branch (lines 100-127)
execute_client(c, stmt, parameters, reply) ==
    LET converted_sql == to_unlabeled(stmt.sql, Len(parameters))
        handed == <<Sent("execute", c.real_cursor, converted_sql, parameters, stmt)>>
    IN  IF c.real_cursor = None THEN Executed(c, <<>>, "AttributeError")
        ELSE IF reply.kind = "raise_execute" THEN Executed(c, handed, "DriverError")
        ELSE IF ~reply.description.none /\ reply.description.val # <<>>
        THEN IF reply.kind = "raise_fetchall" THEN Executed(c, handed, "DriverError")
             ELSE Executed(
                    [c EXCEPT !.results = Some([i \in 1..Len(reply.rows) |->
                                     dict_zip(reply.description.val, reply.rows[i])]),
                              !.description = reply.description,
                              !.rowcount = reply.rowcount,
                              !.current_index = 0],
                    handed, "None")
        ELSE Executed(
                [c EXCEPT !.results = Some(<<>>),
                          !.description = NoneList,
                          !.rowcount = reply.rowcount,
                          !.current_index = 0],
                handed, "None")

\* cursor.execute(sql, parameters) (lines 56-129); reply is what the engine
\* (in-engine mode) or the driver (external-client mode) does with the statement
Execute(stmt, parameters, reply) ==
    /\ cur.made
    /\ ncalls < MaxCursorCalls
    /\ ncalls' = ncalls + 1
    /\ LET r == IF server_side THEN execute_server(cur, stmt, parameters, reply)
                ELSE execute_client(cur, stmt, parameters, reply) IN
        /\ cur' = r.cur
        /\ sent' = sent \o r.sent
        /\ got' = IF r.err = "None" THEN <<>> ELSE got
        /\ qres' = IF r.err = "None" THEN Ret("execute", "self", <<>>, <<>>, "None")
                   ELSE Ret("execute", "error", <<>>, <<>>, r.err)
    /\ UNCHANGED <<server_side, connVars, txnVars, rfVars, scVars>>

\* what a fetch gives: the cursor afterwards and the value returned
Fetched(c, ret) == [cur |-> c, ret |-> ret]

\* fetchone that moves on even when no row is left
fetchone_past_end(c) ==
    IF c.results.none \/ c.current_index >= Len(c.results.val)
    THEN Fetched([c EXCEPT !.current_index = @ + 1],
                 Ret("fetchone", "none", <<>>, <<>>, "None"))
    ELSE Fetched([c EXCEPT !.current_index = @ + 1],
                 Ret("fetchone", "tuple", <<values(c.results.val[c.current_index + 1])>>,
                     <<>>, "None"))
\* fetchone (lines 131-145)
fetchone(c) ==
    IF c.results.none \/ c.current_index >= Len(c.results.val)
    THEN Fetched(c, Ret("fetchone", "none", <<>>, <<>>, "None"))
    ELSE Fetched([c EXCEPT !.current_index = @ + 1],
                 Ret("fetchone", "tuple", <<values(c.results.val[c.current_index + 1])>>,
                     <<>>, "None"))

\* arraysize (line 226)
arraysize == 1

RECURSIVE fetchmany_loop(_, _, _)
\* `for _ in range(size):` of fetchmany (lines 160-165)
fetchmany_loop(c, size, results) ==
    IF size <= 0 THEN Fetched(c, Ret("fetchmany", "tuples", results, <<>>, "None"))
    ELSE LET r == fetchone(c) IN
         IF r.ret.kind = "none"
         THEN Fetched(r.cur, Ret("fetchmany", "tuples", results, <<>>, "None"))
         ELSE fetchmany_loop(r.cur, size - 1, results \o r.ret.tuples)
\* fetchmany(size) (lines 147-167); given is false for size=None
fetchmany(c, given, size) == fetchmany_loop(c, IF given THEN size ELSE arraysize, <<>>)

\* fetchall that returns the rows from the first one
fetchall_from_start(c) ==
    IF c.results.none THEN Fetched(c, Ret("fetchall", "tuples", <<>>, <<>>, "None"))
    ELSE Fetched([c EXCEPT !.current_index = Len(c.results.val)],
                 Ret("fetchall", "tuples",
                     [i \in 1..Len(c.results.val) |-> values(c.results.val[i])],
                     <<>>, "None"))
\* fetchall (lines 169-185)
fetchall(c) ==
    IF c.results.none THEN Fetched(c, Ret("fetchall", "tuples", <<>>, <<>>, "None"))
    ELSE Fetched([c EXCEPT !.current_index = Max(@, Len(c.results.val))],
                 Ret("fetchall", "tuples",
                     [i \in 1..(Len(c.results.val) - c.current_index) |->
                        values(c.results.val[c.current_index + i])],
                     <<>>, "None"))

\* fetchall_dict (lines 187-197): the slice from the position on; the position stays
fetchall_dict(c) ==
    IF c.results.none THEN Fetched(c, Ret("fetchall_dict", "dicts", <<>>, <<>>, "None"))
    ELSE Fetched(c, Ret("fetchall_dict", "dicts", <<>>,
                        SubSeq(c.results.val, c.current_index + 1, Len(c.results.val)),
                        "None"))

\* fetchone_dict (lines 199-211)
fetchone_dict(c) ==
    IF c.results.none \/ c.current_index >= Len(c.results.val)
    THEN Fetched(c, Ret("fetchone_dict", "none", <<>>, <<>>, "None"))
    ELSE Fetched([c EXCEPT !.current_index = @ + 1],
                 Ret("fetchone_dict", "dict", <<>>,
                     <<c.results.val[c.current_index + 1]>>, "None"))

\* the rows a call returned, each with the form it was returned in and its values
rows_of(ret) ==
    [i \in 1..Len(ret.tuples) |-> [as |-> "tuple", row |-> ret.tuples[i]]]
    \o [i \in 1..Len(ret.dicts) |-> [as |-> "dict", row |-> values(ret.dicts[i])]]

\* a fetch call on the cursor
Fetch(r) ==
    /\ cur.made
    /\ ncalls < MaxCursorCalls
    /\ ncalls' = ncalls + 1
    /\ cur' = r.cur
    /\ qres' = r.ret
    /\ got' = got \o rows_of(r.ret)
    /\ UNCHANGED <<server_side, sent, connVars, txnVars, rfVars, scVars>>

Fetchone == Fetch(fetchone(cur))
Fetchmany(given, size) == Fetch(fetchmany(cur, given, size))
Fetchall == Fetch(fetchall(cur))
FetchallDict == Fetch(fetchall_dict(cur))
FetchoneDict == Fetch(fetchone_dict(cur))

\* the cursor of the twin process and what its most recent call gave
Twin(c, ret) == [cur |-> c, res |-> ret]
NoTwin == Twin(NoCursor, NoRet)
\* the twin process makes no call
Alone == twin' = twin

QIdle ==
    /\ server_side = FALSE
    /\ cur = NoCursor
    /\ sent = <<>>
    /\ got = <<>>
    /\ qres = NoRet
    /\ ncalls = 0
    /\ twin = NoTwin

InitConn ==
    /\ stack = [t \in Threads |-> <<>>]
    /\ hasStack = [t \in Threads |-> FALSE]
    /\ ctxs = [t \in Threads |-> <<>>]
    /\ lastOp = [t \in Threads |-> Op("none", None, None, FALSE)]
    /\ own = [t \in Threads |-> <<>>]
    /\ pushed = [t \in Threads |-> <<>>]
    /\ popped = [t \in Threads |-> <<>>]
    /\ entries = [t \in Threads |-> <<>>]
    /\ TxnIdle
    /\ RfIdle
    /\ QIdle
    /\ ScIdle

\* a transaction scope of thread t1, with or without a connection set
InitTxn ==
    /\ \E c \in {<<>>, <<"A">>} :
          /\ stack = [t \in Threads |-> IF t = "t1" THEN c ELSE <<>>]
          /\ hasStack = [t \in Threads |-> t = "t1" /\ c # <<>>]
          /\ own = [t \in Threads |-> IF t = "t1" THEN c ELSE <<>>]
    /\ ctxs = [t \in Threads |-> <<>>]
    /\ lastOp = [t \in Threads |-> Op("none", None, None, FALSE)]
    /\ pushed = [t \in Threads |-> <<>>]
    /\ popped = [t \in Threads |-> <<>>]
    /\ entries = [t \in Threads |-> <<>>]
    /\ pc = "start"
    /\ max_retries \in 0..MaxRetries
    /\ script \in [1..(MaxRetries + 1) -> Outcomes]
    /\ gen = [conn |-> None, attempt |-> 0, last_error |-> NoExc]
    /\ executions = 0
    /\ pending = NoExc
    /\ oplog = <<>>
    /\ result = NoResult
    /\ RfIdle
    /\ QIdle
    /\ ScIdle

NextTxn ==
    \/ TxnEnter
    \/ UnitOfWork
    \/ \E committed \in Outcomes : TxnExitNormal(committed)
    \/ TxnExitError

SpecTxn == InitTxn /\ [][NextTxn]_vars

\* one caller, every call observed
Watch(t) == Owns(t) /\ Observe(t) /\ UNCHANGED <<txnVars, rfVars, qVars, scVars>>

NextConn ==
    \/ \E h \in Handles : SetConnection("t1", h) /\ Watch("t1")
    \/ GetConnection("t1") /\ Watch("t1")
    \/ PopConnection("t1") /\ Watch("t1")
    \/ \E h \in Handles : CtxEnter("t1", h) /\ Watch("t1")
    \/ \E exc \in BlockErrors \cup {None} : CtxExit("t1", exc) /\ Watch("t1")

SpecConn == InitConn /\ [][NextConn]_vars

\* two threads calling in any interleaving; t1 uses connections A and B, t2
\* uses B, so that both may hold the same connection
HandlesOf(t) == IF t = "t1" THEN Handles ELSE {"B"}

Track(t) == Owns(t) /\ UNCHANGED <<obsVars, txnVars, rfVars, qVars, scVars>>

NextThreads ==
    \/ \E t \in Threads : \E h \in HandlesOf(t) : SetConnection(t, h) /\ Track(t)
    \/ \E t \in Threads : GetConnection(t) /\ Track(t)
    \/ \E t \in Threads : PopConnection(t) /\ Track(t)
    \/ \E t \in Threads : \E h \in HandlesOf(t) : CtxEnter(t, h) /\ Track(t)
    \/ \E t \in Threads, exc \in BlockErrors \cup {None} : CtxExit(t, exc) /\ Track(t)

SpecThreads == InitConn /\ [][NextThreads]_vars

\* one caller invoking the remote function again and again, setting and
\* popping connections between invocations
Between(t) == rcall[t].st = "idle" /\ Owns(t) /\ UNCHANGED <<obsVars, txnVars, rfVars, qVars, scVars>>

NextRemote ==
    \/ \E bindable \in BOOLEAN : RfCall("t1", bindable)
    \/ \E reply \in InstallReplies : RfInstallReturn("t1", reply)
    \/ RfInvoke("t1")
    \/ \E reply \in InvokeReplies : RfInvokeReturn("t1", reply)
    \/ \E h \in Handles : SetConnection("t1", h) /\ Between("t1")
    \/ PopConnection("t1") /\ Between("t1")

SpecRemote == InitConn /\ [][NextRemote]_vars

(* ------------------------------------------------------------------ *)
(* Cursors: construction, execute and the fetch calls                  *)
(* ------------------------------------------------------------------ *)

\* thread t1 starts with the connection stack c; nothing else has happened
StartWith(c) ==
    /\ stack = [t \in Threads |-> IF t = "t1" THEN c ELSE <<>>]
    /\ hasStack = [t \in Threads |-> t = "t1" /\ c # <<>>]
    /\ own = [t \in Threads |-> IF t = "t1" THEN c ELSE <<>>]
    /\ ctxs = [t \in Threads |-> <<>>]
    /\ lastOp = [t \in Threads |-> Op("none", None, None, FALSE)]
    /\ pushed = [t \in Threads |-> <<>>]
    /\ popped = [t \in Threads |-> <<>>]
    /\ entries = [t \in Threads |-> <<>>]

\* column names of a result
ColumnSets == {<<"a">>, <<"a", "b">>}
\* the results: rows that all differ, and rows that are all alike
RowSeqs == UNION {{[i \in 1..m |-> i], [i \in 1..m |-> 1]} : m \in 0..MaxRows}
\* the row of value v under the columns cols
tuple_of(cols, v) == [i \in 1..Len(cols) |-> v + 10 * (i - 1)]

EngineReplies ==
    {EngineReply("raise", <<>>, FALSE, 0)}
    \cup {EngineReply("ok", [i \in 1..Len(vs) |-> dict_zip(cols, tuple_of(cols, vs[i]))],
                      h, Len(vs)) : cols \in ColumnSets, vs \in RowSeqs, h \in BOOLEAN}
DriverReplies ==
    {DriverReply("raise_execute", NoneList, <<>>, -1),
     DriverReply("raise_fetchall", Some(<<"a">>), <<>>, -1)}
    \cup {DriverReply("ok", NoneList, <<>>, n) : n \in {0, 1}}
    \cup {DriverReply("ok", Some(cols), [i \in 1..Len(vs) |-> tuple_of(cols, vs[i])],
                      Len(vs)) : cols \in ColumnSets \cup {<<"a", "a">>}, vs \in RowSeqs}
Replies(srv) == IF srv THEN EngineReplies ELSE DriverReplies

\* a statement without markers
PlainStmt == Stmt(<<"S", "E", "L", "E", "C", "T", " ", "1">>, "plain", <<>>)

InitCursor ==
    /\ StartWith(<<"A">>)
    /\ TxnIdle
    /\ RfIdle
    /\ ScIdle
    /\ server_side \in BOOLEAN
    /\ cur = NoCursor
    /\ sent = <<>>
    /\ got = <<>>
    /\ qres = NoRet
    /\ ncalls = 0
    /\ twin = NoTwin

\* one cursor object: constructed, then used for executes and fetches
NextCursor ==
    \/ ~cur.made /\ CursorInit("t1", None) /\ Alone
    \/ \E reply \in Replies(server_side) : Execute(PlainStmt, <<>>, reply) /\ Alone
    \/ Fetchone /\ Alone
    \/ \E given \in BOOLEAN, size \in 0..(MaxRows + 1) : Fetchmany(given, size) /\ Alone
    \/ Fetchall /\ Alone
    \/ FetchallDict /\ Alone
    \/ FetchoneDict /\ Alone

SpecCursor == InitCursor /\ [][NextCursor]_vars

\* cursors constructed in either mode, with and without a connection
\* argument, while the caller sets and pops connections
NextConstruct ==
    \/ \E c \in Handles \cup {None} : CursorInit("t1", c) /\ Alone
    \/ \E b \in BOOLEAN : SetServerSide(b)
    \/ \E h \in Handles : SetConnection("t1", h) /\ Between("t1")
    \/ PopConnection("t1") /\ Between("t1")

SpecConstruct == InitConn /\ [][NextConstruct]_vars

(* ------------------------------------------------------------------ *)
(* Statements with markers, translated by execute                      *)
(* ------------------------------------------------------------------ *)

RECURSIVE unlabeled_text(_, _, _, _)
\* "a %s %s ...": k unlabeled markers, the p-th directly followed by the text g
unlabeled_text(i, k, p, g) ==
    IF i > k THEN <<>>
    ELSE <<" ">> \o PercentS \o (IF i = p THEN g ELSE <<>>) \o unlabeled_text(i + 1, k, p, g)
RECURSIVE numbered_text(_, _)
\* "a $2 $1 ...": numbered markers with the indices marks, from position i on
numbered_text(marks, i) ==
    IF i > Len(marks) THEN <<>>
    ELSE <<" ">> \o Dollar \o str(marks[i]) \o numbered_text(marks, i + 1)

\* what may directly follow an unlabeled marker
Followers == {<<"0">>, <<"1">>, <<",">>, <<"%">>, <<"s">>}
UnlabeledStmts ==
    {Stmt(<<"a">> \o unlabeled_text(1, k, 0, <<>>), "unlabeled", [i \in 1..k |-> i]) :
        k \in 0..MaxMarkers}
    \cup UNION {{Stmt(<<"a">> \o unlabeled_text(1, k, p, g), "unlabeled", [i \in 1..k |-> i]) :
                    p \in 1..k, g \in Followers} : k \in 1..MaxMarkers}
NumberedStmts ==
    UNION {{Stmt(<<"a">> \o numbered_text(marks, 1), "numbered", marks) :
                marks \in [1..m -> 1..MaxMarks]} : m \in 1..MaxMarks}

\* the parameters p1..pn of a call, told apart by their position
Params(n) == [i \in 1..n |-> i]
\* the largest index a numbered statement names
MaxIndex(marks) == CHOOSE x \in {marks[i] : i \in 1..Len(marks)} :
                        \A i \in 1..Len(marks) : marks[i] <= x

\* the executes sent so far
Executes == SelectSeq(sent, LAMBDA e : e.call \in {"execute", "wormhole_query"})

\* the first execute is given a statement with markers and as many parameters
\* as it needs; a later one is given the text the one before handed over, with
\* the same parameters
SqlInputs ==
    IF Executes = <<>>
    THEN {[stmt |-> s, parameters |-> Params(Len(s.marks))] : s \in UnlabeledStmts}
         \cup UNION {{[stmt |-> s, parameters |-> Params(n)] :
                         n \in MaxIndex(s.marks)..MaxMarks} : s \in NumberedStmts}
    ELSE {[stmt |-> Stmt(top(Executes).sql, "translated", <<>>),
           parameters |-> top(Executes).params]}

InitSql ==
    /\ StartWith(<<"A">>)
    /\ TxnIdle
    /\ RfIdle
    /\ ScIdle
    /\ server_side \in BOOLEAN
    /\ cur = NoCursor
    /\ sent = <<>>
    /\ got = <<>>
    /\ qres = NoRet
    /\ ncalls = 0
    /\ twin = NoTwin

\* whether the cursor can execute in the current mode
Usable == cur.made /\ (server_side \/ cur.real_cursor # None)

\* a cursor is constructed when the caller has none it can use; the first
\* statement is then translated in one mode and its translation in the other
NextSql ==
    \/ ~Usable /\ CursorInit("t1", None) /\ Alone
    \/ \E b \in BOOLEAN : SetServerSide(b)
    \/ \E in \in SqlInputs :
          Len(Executes) < 2 /\
          Execute(in.stmt, in.parameters,
                  IF server_side THEN EngineReply("ok", <<>>, FALSE, 0)
                  ELSE DriverReply("ok", NoneList, <<>>, 0)) /\ Alone

SpecSql == InitSql /\ [][NextSql]_vars


(* ------------------------------------------------------------------ *)
(* Claims on the connection stack                                      *)
(* ------------------------------------------------------------------ *)

\* the handles of `pushed` that the pops so far have not removed
Live(t) == SubSeq(pushed[t], 1, Max(0, Len(pushed[t]) - Len(popped[t])))

\* C8: the connection stack is LIFO and pop is total. After pushes h1..hn the
\* i-th pop returns h(n+1-i) and every pop beyond the n-th returns None; the
\* stack holds exactly the handles not yet popped (empty after a pop or get on
\* the empty stack); get_connection returns the handle the next pop will return
\* (None when there is none) and removes nothing; no call raises.
C8_LifoTotal ==
    /\ \A i \in 1..Len(popped["t1"]) :
          popped["t1"][i] = IF i <= Len(pushed["t1"])
                            THEN pushed["t1"][Len(pushed["t1"]) + 1 - i]
                            ELSE None
    /\ stack_of("t1") = Live("t1")
    /\ lastOp["t1"].op = "get" =>
          lastOp["t1"].ret = IF Live("t1") = <<>> THEN None ELSE top(Live("t1"))
    /\ lastOp["t1"].op = "pop" => lastOp["t1"].ret = top(popped["t1"])
    /\ ~lastOp["t1"].raised

\* C8 witness: A then B were pushed on the empty stack, and three pops returned
\* B, A and None.
C8_Witness ==
    /\ pushed["t1"] = <<"A", "B">>
    /\ popped["t1"] = <<"B", "A", None>>
    /\ lastOp["t1"] = Op("pop", None, None, FALSE)
    /\ stack_of("t1") = <<>>

\* C9: connection_context pushes its handle on entry, so that get_connection
\* then returns it; every exit, normal or by error, pops exactly once and lets
\* the error through; when the block left the stack as it found it, the stack
\* after the exit is the stack before the entry.
C9_ScopedPushPop ==
    [][ /\ Len(ctxs'["t1"]) > Len(ctxs["t1"]) =>
            /\ stack_of("t1")' = Append(stack_of("t1"), top(ctxs'["t1"]))
            /\ get_connection("t1").ret' = top(ctxs'["t1"])
            /\ get_connection("t1").rest' = stack_of("t1")'
        /\ Len(ctxs'["t1"]) < Len(ctxs["t1"]) =>
            /\ stack_of("t1")' = IF stack_of("t1") = <<>> THEN <<>>
                                 ELSE butlast(stack_of("t1"))
            /\ lastOp'["t1"].ret = lastOp'["t1"].arg
            /\ stack_of("t1") = Append(top(entries["t1"]), top(ctxs["t1"])) =>
                  stack_of("t1")' = top(entries["t1"])
      ]_vars

\* C9 witness: an inner block nested in an outer one has just ended by an
\* error; the error left the with statement, the block had left the stack as
\* it found it, and the outer block's handle is current again.
C9_Witness ==
    /\ lastOp["t1"] = Op("exit", "ValueError", "ValueError", FALSE)
    /\ ctxs["t1"] = <<"A">>
    /\ entries["t1"] = <<(<<>>)>>
    /\ stack_of("t1") = <<"A">>
    /\ popped["t1"] = <<"B">>
    /\ get_connection("t1").ret = "A"

\* C10: connection stacks are isolated per thread. In every interleaving each
\* thread's stack holds exactly the handles that thread pushed and has not
\* popped, so no call of the other thread changes it, and get_connection
\* returns the thread's own latest live handle or None.
C10_ThreadIsolation ==
    \A t \in Threads :
        /\ stack_of(t) = own[t]
        /\ get_connection(t).ret = IF own[t] = <<>> THEN None ELSE top(own[t])
        /\ lastOp[t].op = "get" =>
              lastOp[t].ret = IF own[t] = <<>> THEN None ELSE top(own[t])

\* C10 witness: t1 holds A, t2 has pushed B and popped it again; t1's
\* get_connection still returns A and t2's returns None.
C10_Witness ==
    /\ own["t1"] = <<"A">>
    /\ lastOp["t1"] = Op("get", None, "A", FALSE)
    /\ own["t2"] = <<>>
    /\ hasStack["t2"]
    /\ lastOp["t2"] = Op("get", None, None, FALSE)

(* ------------------------------------------------------------------ *)
(* Claims on the transaction scope                                     *)
(* ------------------------------------------------------------------ *)

\* the with statement has been left and the unit of work was started
TxnLeft == pc = "exited" /\ executions >= 1

\* the message holds one of the five conflict markers, in any letter case
HasMarker(msg) ==
    \E k \in 1..Len(retryable_conditions) : contains(lower(msg), retryable_conditions[k])

\* every execution of the unit of work comes right after a rollback
WorkAfterRollback ==
    \A i \in 1..Len(oplog) :
        oplog[i].op = "work" => i > 1 /\ oplog[i - 1].op = "rollback"

\* every commit issued so far returned without raising
CommitsOk == \A i \in 1..Len(oplog) : oplog[i].op = "commit" => oplog[i].res = "ok"

\* C1: with max_retries >= 2, a unit of work that raises "could not serialize"
\* on its first two executions and succeeds on the third is executed exactly
\* three times, and the scope ends with a commit and no error.
C1_RetryUntilSuccess ==
    ( /\ TxnLeft
      /\ max_retries >= 2
      /\ script[1] = "serialize" /\ script[2] = "serialize" /\ script[3] = "ok" )
    => /\ result.kind = "ok"
       /\ executions = 3
       /\ top(oplog).op = "commit"

\* C2: a unit of work that always raises "deadlock detected" is executed exactly
\* max_retries + 1 times, each execution right after a rollback, and the caller
\* then receives TransactionRetryError.
C2_ExhaustedAfterAllAttempts ==
    ( /\ TxnLeft
      /\ \A k \in DOMAIN script : script[k] = "deadlock" )
    => /\ result.kind = "error"
       /\ result.err.type = "TransactionRetryError"
       /\ executions = max_retries + 1
       /\ WorkAfterRollback

\* C3: when the unit of work raises a failure whose message holds none of the
\* five markers, the scope issues exactly one rollback after it, no commit and
\* no sleep, does not run the unit of work again (attempt stays 0), and the
\* caller receives that same failure, for every max_retries.
C3_NonRetryableReraised ==
    ( TxnLeft /\ pending # NoExc /\ ~HasMarker(pending.msg) )
    => /\ result = [kind |-> "error", err |-> pending]
       /\ oplog = <<Rollback(gen.conn), Work(1, script[1]), Rollback(gen.conn)>>
       /\ executions = 1
       /\ gen.attempt = 0

\* C3 witness: with max_retries = 3 the unit of work raised "division by zero"
\* and the scope has been left with that failure.
C3_Witness ==
    /\ TxnLeft
    /\ max_retries = 3
    /\ pending = Failures["boom"]
    /\ result.err = Failures["boom"]

Installs == {i \in DOMAIN rpcLog : rpcLog[i].ev = "install"}
Invokes == {i \in DOMAIN rpcLog : rpcLog[i].ev = "invoke"}
InstallsOk == {i \in Installs : rpcLog[i].res = "ok"}

C6_InvokeOnlyInstalled ==
    /\ \A j \in Invokes :
          /\ rpcLog[j].h # None
          /\ \E i \in InstallsOk : i < j /\ rpcLog[i].h = rpcLog[j].h
    /\ \A i \in InstallsOk : \A j \in Installs : j <= i
    /\ \A t \in Threads : rcall[t].st \in {"ready", "invoking"} => installed
    /\ Invokes # {} => installed

\* C6 witness: the first invocation installed (handle f2) and invoked, and a
\* second invocation invoked with f2 without installing.
C6_Witness ==
    /\ Len(rpcLog) = 3
    /\ rpcLog[1] = Rpc("install", "t1", "A", "f2", "ok")
    /\ rpcLog[2].ev = "invoke" /\ rpcLog[2].h = "f2" /\ rpcLog[2].res = "success"
    /\ rpcLog[3].ev = "invoke" /\ rpcLog[3].h = "f2" /\ rpcLog[3].res = "pending"
    /\ calls = 2

\* C7: once the installed flag is true with handle h, it stays true with the
\* same h whatever a later invocation does, and the flag is never true with
\* the handle unset.
C7_InstalledForGood ==
    [][ /\ installed => installed' /\ func_id' = func_id
        /\ installed' => func_id' # None ]_vars

\* C7 witness: the function was installed with handle f1; a later invocation
\* got success=false and the third one found no connection; the flag and the
\* handle are as they were.
C7_Witness ==
    /\ installed /\ func_id = "f1"
    /\ \E j \in Invokes : rpcLog[j].res = "failure"
    /\ rres["t1"] = Raised("NoConnection")
    /\ calls = 3
    /\ stack_of("t1") = <<>>

(* ------------------------------------------------------------------ *)
(* Scopes: transaction, savepoint, read-only; calls without connection *)
(* ------------------------------------------------------------------ *)

\* the name of a savepoint scope opened inside n open ones
SpName(n) == IF n = 0 THEN "sp" ELSE "sp1"
\* how a unit of work ends: cleanly, with a failure that is not a conflict, or
\* with one whose message has a conflict marker
WorkOutcomes == {"ok", "boom", "serialize"}
\* how a statement or a commit of these scopes ends
StatementOutcomes == {"ok", "boom"}

\* thread t1, with or without a connection set, runs one of: a transaction
\* scope whose unit of work may hold savepoint scopes, a read-only scope,
\* savepoint scopes on their own, or calls of a remote function that is or is
\* not installed yet
InitScopes ==
    /\ \E c \in {<<>>, <<"A">>} : StartWith(c)
    /\ \/ /\ pc = "start"
          /\ max_retries = MaxRetries
          /\ script \in {[i \in 1..(MaxRetries + 1) |-> o] : o \in WorkOutcomes}
          /\ ro = RoAt("idle", None)
          /\ installed = FALSE
       \/ /\ pc = "idle"
          /\ max_retries = 0
          /\ script = <<>>
          /\ ro = RoAt("start", None)
          /\ installed = FALSE
       \/ /\ pc = "idle"
          /\ max_retries = 0
          /\ script = <<>>
          /\ ro = RoAt("idle", None)
          /\ installed \in BOOLEAN
    /\ gen = [conn |-> None, attempt |-> 0, last_error |-> NoExc]
    /\ executions = 0
    /\ pending = NoExc
    /\ oplog = <<>>
    /\ result = NoResult
    /\ sps = <<>>
    /\ sres = NoResult
    /\ func_id = IF installed THEN "f1" ELSE None
    /\ rcall = [t \in Threads |-> Idle]
    /\ rres = [t \in Threads |-> [kind |-> "none", err |-> "None", value |-> None]]
    /\ rpcLog = <<>>
    /\ calls = 0
    /\ QIdle

\* no scope has been entered
NoScopeYet == pc = "idle" /\ ro.pc = "idle" /\ oplog = <<>> /\ sres = NoResult
\* a savepoint scope can be opened: inside the unit of work of the
\* transaction scope, or on its own
SavepointSite == pc = "body" \/ (pc = "idle" /\ ro.pc = "idle" /\ calls = 0)

NextScopes ==
    \/ TxnEnter
    \/ sps = <<>> /\ UnitOfWork
    \/ \E committed \in StatementOutcomes : TxnExitNormal(committed)
    \/ TxnExitError
    \/ \E s \in StatementOutcomes, rb_ok, caught \in BOOLEAN :
          SavepointSite /\ (s = "ok" => rb_ok) /\ SpEnter(SpName(Len(sps)), s, rb_ok, caught)
    \/ \E outcome \in WorkOutcomes : SpWork(outcome)
    \/ \E rel \in StatementOutcomes, caught \in BOOLEAN : SpExitNormal(rel, TRUE, caught)
    \/ \E caught \in BOOLEAN : SpExitError(TRUE, caught)
    \/ \E s \in StatementOutcomes : RoEnter(s)
    \/ \E outcome \in WorkOutcomes : RoWork(outcome)
    \/ \E committed \in StatementOutcomes : RoExitNormal(committed)
    \/ RoExitError
    \/ \E bindable \in BOOLEAN : NoScopeYet /\ RfCall("t1", bindable)
    \/ \E reply \in InstallReplies : RfInstallReturn("t1", reply)
    \/ RfInvoke("t1")
    \/ \E reply \in InvokeReplies : RfInvokeReturn("t1", reply)

SpecScopes == InitScopes /\ [][NextScopes]_vars

(* ------------------------------------------------------------------ *)
(* Claims about query.py                                               *)
(* ------------------------------------------------------------------ *)

RECURSIVE numbered_of(_, _)
\* the text with its unlabeled markers numbered $n, $n+1, ... from left to right
numbered_of(s, n) ==
    IF s = <<>> THEN <<>>
    ELSE IF Len(s) >= 2 /\ SubSeq(s, 1, 2) = PercentS
    THEN Dollar \o str(n) \o numbered_of(SubSeq(s, 3, Len(s)), n + 1)
    ELSE <<s[1]>> \o numbered_of(SubSeq(s, 2, Len(s)), n)

RECURSIVE count_unlabeled(_)
\* how many unlabeled markers a text has
count_unlabeled(s) ==
    IF Len(s) < 2 THEN 0
    ELSE IF SubSeq(s, 1, 2) = PercentS THEN 1 + count_unlabeled(SubSeq(s, 3, Len(s)))
    ELSE count_unlabeled(SubSeq(s, 2, Len(s)))

\* an in-engine execute of a statement with unlabeled markers only
TranslatedInEngine(e) == e.call = "wormhole_query" /\ e.given.kind = "unlabeled"

\* C11: the in-engine translation of a text with k unlabeled markers is the
\* text with the markers replaced by $1..$k from left to right, and the
\* external-client translation of that output with k parameters is the
\* original text again, for k >= 10 too.
C11_RoundTrip ==
    \A j \in 1..Len(Executes) :
        /\ TranslatedInEngine(Executes[j]) =>
              Executes[j].sql = numbered_of(Executes[j].given.sql, 1)
        /\ ( /\ j > 1
             /\ TranslatedInEngine(Executes[j - 1])
             /\ Executes[j].call = "execute"
             /\ Executes[j].given.sql = Executes[j - 1].sql
             /\ Len(Executes[j].params) = count_unlabeled(Executes[j - 1].given.sql) )
           => Executes[j].sql = Executes[j - 1].given.sql

\* the driver binds positionally: the j-th marker of the statement it is
\* handed receives the j-th parameter
\* C12: in external-client mode a statement with numbered markers whose
\* indices are within 1..n reaches the driver so that every marker occurrence
\* receives the parameter its index named, also when an index is reused or
\* the indices are not ascending.
C12_NumberedBinding ==
    \A j \in 1..Len(Executes) :
        LET e == Executes[j] IN
        (e.call = "execute" /\ e.given.kind = "numbered") =>
            /\ count_unlabeled(e.sql) = Len(e.given.marks)
            /\ \A o \in 1..Len(e.given.marks) :
                  /\ o <= Len(e.params)
                  /\ e.params[o] = e.params[e.given.marks[o]]

\* the rows the cursor stores, as tuples of values (none before the first execute)
Stored == IF cur.results.none THEN <<>>
          ELSE [i \in 1..Len(cur.results.val) |-> values(cur.results.val[i])]
StoredNext == IF cur'.results.none THEN <<>>
              ELSE [i \in 1..Len(cur'.results.val) |-> values(cur'.results.val[i])]
FetchCalls == {"fetchone", "fetchmany", "fetchall", "fetchone_dict", "fetchall_dict"}
\* this step is a fetch call
FetchStep == ncalls' = ncalls + 1 /\ qres'.call \in FetchCalls
\* this step is an execute that stored a result
ExecuteStep == ncalls' = ncalls + 1 /\ qres'.call = "execute" /\ qres'.kind = "self"
\* the values of the rows a call returned
RowsReturned(ret) == [i \in 1..Len(rows_of(ret)) |-> rows_of(ret)[i].row]

\* C13: the fetch position is always between 0 and the number of stored rows;
\* it never decreases between two executes; a fetch beyond the stored rows
\* (also before the first execute) returns None or a shorter or empty list,
\* raises nothing and does not move the position past the end.
C13_PositionInRange ==
    /\ [](0 <= cur.current_index /\ cur.current_index <= Len(Stored))
    /\ [][~ExecuteStep => cur'.current_index >= cur.current_index]_vars
    /\ [][FetchStep =>
            /\ qres'.kind # "error"
            /\ Len(RowsReturned(qres')) <= Len(Stored) - cur.current_index
            /\ cur.current_index = Len(Stored) =>
                    /\ qres'.kind \in {"none", "tuples", "dicts"}
                    /\ RowsReturned(qres') = <<>>
                    /\ cur'.current_index = cur.current_index]_vars
\* a fetch at the end of the stored rows, all of them fetched, returned nothing
C13_Witness ==
    /\ qres.call \in FetchCalls
    /\ RowsReturned(qres) = <<>>
    /\ Len(Stored) = MaxRows
    /\ cur.current_index = MaxRows

\* the rows returned since the last execute were all returned as tuples
OnlyTuples == \A i \in 1..Len(got) : got[i].as = "tuple"

\* C14: fetchall returns the stored rows from the position on in their order;
\* fetchone and fetchmany calls return the rows one after another, so that
\* what the calls since the execute returned, put together, is the stored
\* rows up to the position: none skipped, repeated or out of order.
C14_FetchesSliceTheResult ==
    /\ [](OnlyTuples =>
            [i \in 1..Len(got) |-> got[i].row] = SubSeq(Stored, 1, cur.current_index))
    /\ [][(FetchStep /\ qres'.call = "fetchall") =>
            /\ qres'.tuples = SubSeq(Stored, cur.current_index + 1, Len(Stored))
            /\ cur'.current_index = Len(Stored)]_vars
\* two rows fetched one by one, then fetchall returned the third
C14_Witness ==
    /\ OnlyTuples
    /\ Len(Stored) = MaxRows
    /\ Len(got) = MaxRows
    /\ qres.call = "fetchall"
    /\ Len(qres.tuples) = 1

\* C15: the position is 0 right after every execute and every fetch call,
\* the dictionary-returning ones included, advances it by the number of rows
\* it returned, so no row is returned twice before the next execute.
C15_EveryFetchAdvances ==
    /\ [][ExecuteStep => cur'.current_index = 0]_vars
    /\ [][FetchStep => cur'.current_index = cur.current_index + Len(RowsReturned(qres'))]_vars
    /\ []([i \in 1..Len(got) |-> got[i].row] = SubSeq(Stored, 1, cur.current_index))

\* the connection on top of thread t1's stack, None when it is empty
Current == IF stack["t1"] = <<>> THEN None ELSE top(stack["t1"])

\* C18: in external-client mode a cursor binds to the connection argument
\* when given, else to the top of the connection stack; with neither,
\* construction raises a configuration error and creates no driver cursor. In
\* in-engine mode construction succeeds without any connection and does not
\* touch the driver.
C18_CursorBinding ==
    [][\A c \in Handles \cup {None} : CursorInit("t1", c) =>
          IF server_side
          THEN qres'.kind = "self" /\ cur'.made /\ cur'.real_cursor = None /\ sent' = sent
          ELSE IF c = None /\ Current = None
          THEN /\ qres'.kind = "error"
               /\ qres'.err = "RuntimeError"
               /\ sent' = sent
               /\ cur' = cur
          ELSE /\ qres'.kind = "self"
               /\ cur'.made
               /\ cur'.real_cursor = (IF c # None THEN c ELSE Current)
               /\ sent' = Append(sent, Sent("cursor", IF c # None THEN c ELSE Current,
                                            <<>>, <<>>, NoStmt))]_vars
\* a construction failed for want of a connection after two cursors were
\* created, one on the argument B while A was on the stack
C18_Witness ==
    /\ qres.call = "init"
    /\ qres.kind = "error"
    /\ ~server_side
    /\ Len(sent) >= 2
    /\ \E i \in 1..Len(sent) : sent[i].conn = "B"
    /\ own["t1"] = <<>>

(* ------------------------------------------------------------------ *)
(* Claims about the savepoint and read-only scopes and missing         *)
(* connections                                                         *)
(* ------------------------------------------------------------------ *)

\* commits and full rollbacks
Ends(e) == e.op \in {"commit", "rollback"}
\* a ROLLBACK TO SAVEPOINT statement
IsRollbackTo(e) == e.op = "execute" /\ e.sql = "ROLLBACK TO SAVEPOINT"

\* C16: when the unit of work in a savepoint scope raises, the scope issues
\* ROLLBACK TO SAVEPOINT for its own name and nothing else (no RELEASE, no
\* full rollback, no commit) and the same failure leaves the scope; when the
\* caller catches it inside a transaction scope, the transaction stays open,
\* later statements run in it and the clean exit commits.
C16_SavepointRollsBackToItself ==
    /\ [][(\E caught \in BOOLEAN : SpExitError(TRUE, caught)) =>
            /\ oplog' = Append(oplog, Statement(top(sps).conn, "ROLLBACK TO SAVEPOINT",
                                                top(sps).name, "ok"))
            /\ \E i \in 1..Len(oplog) :
                  oplog[i] = Statement(top(sps).conn, "SAVEPOINT", top(sps).name, "ok")
            /\ sres' = Delivered(pending)
            /\ (pending' = NoExc /\ pc = "body") => pc' = "body"]_vars
    /\ [][((\E committed \in StatementOutcomes : TxnExitNormal(committed))
            /\ \E i \in 2..Len(oplog) :
                  IsRollbackTo(oplog[i]) /\ oplog[i - 1].op = "work") =>
            /\ oplog[1] = Rollback(gen.conn)
            /\ \A i \in 2..Len(oplog) : ~Ends(oplog[i])
            /\ top(oplog).op = "work" /\ top(oplog).res = "ok"
            /\ Len(oplog') > Len(oplog)
            /\ oplog'[Len(oplog) + 1].op = "commit"
            /\ oplog'[Len(oplog) + 1].conn = gen.conn]_vars
\* inside a transaction scope the inner of two nested savepoint scopes was
\* rolled back, the failure was caught, and the transaction committed
C16_Witness ==
    /\ pc = "exited"
    /\ result.kind = "ok"
    /\ top(oplog) = Commit("A", "ok")
    /\ \E i \in 1..Len(oplog) : IsRollbackTo(oplog[i]) /\ oplog[i].name = "sp1"
    /\ \E i \in 1..Len(oplog) : oplog[i].op = "execute" /\ oplog[i].sql = "RELEASE SAVEPOINT"
                                /\ oplog[i].name = "sp"

\* the work entries, the sleeps and the statements of the log
Works == SelectSeq(oplog, LAMBDA e : e.op = "work")
Sleeps == SelectSeq(oplog, LAMBDA e : e.op = "sleep")
ReadOnlyMark(c, res) == Statement(c, "SET TRANSACTION READ ONLY", "", res)

\* C17: a read-only scope issues a rollback, then SET TRANSACTION READ ONLY,
\* then runs the unit of work once and commits when it completed; on any
\* failure, one with a conflict marker included, it rolls back and re-raises
\* that failure: no second execution, no sleep, no retries-exhausted error.
C17_ReadOnlyNoRetry ==
    (ro.pc = "exited" /\ ro.conn # None) =>
        /\ Len(oplog) >= 2
        /\ oplog[1] = Rollback(ro.conn)
        /\ oplog[2].op = "execute" /\ oplog[2].sql = "SET TRANSACTION READ ONLY"
        /\ oplog[2].conn = ro.conn
        /\ Sleeps = <<>>
        /\ Len(Works) <= 1
        /\ sres.err.type # "TransactionRetryError"
        /\ oplog[2].res = "ok" => (Len(oplog) >= 3 /\ oplog[3] = Work(1, oplog[3].res))
        /\ IF sres.kind = "ok"
           THEN oplog = <<Rollback(ro.conn), ReadOnlyMark(ro.conn, "ok"), Work(1, "ok"),
                          Commit(ro.conn, "ok")>>
           ELSE /\ top(oplog) = Rollback(ro.conn)
                /\ oplog[Len(oplog) - 1].res # "ok"
                /\ sres.err = Failures[oplog[Len(oplog) - 1].res]
                /\ \A i \in 2..(Len(oplog) - 2) : oplog[i].res = "ok" /\ ~Ends(oplog[i])
\* a unit of work failed with a conflict-marked message in a read-only scope
\* and that failure reached the caller
C17_Witness ==
    /\ ro.pc = "exited"
    /\ sres = Delivered(Failures["serialize"])
    /\ is_retryable_error(sres.err)
    /\ oplog = <<Rollback("A"), ReadOnlyMark("A", "ok"), Work(1, "serialize"),
                 Rollback("A")>>

\* the configuration error raised for want of a connection
NoConnectionError == Exc("RuntimeError", TxtNoConnection, <<>>)

\* C19: with an empty connection stack, entering a transaction scope, a
\* read-only scope or a savepoint scope, and invoking a remote function
\* (installed or not), raises a configuration error and does nothing else: no
\* statement, commit or rollback, no install or invoke, no unit of work, and
\* the function's installed flag and handle stay as they were.
C19_NoConnectionNoEffect ==
    [][Current = None =>
        /\ TxnEnter =>
              /\ pc' = "exited" /\ result' = Delivered(NoConnectionError)
              /\ UNCHANGED <<oplog, rpcLog, executions, installed, func_id>>
        /\ (\E s \in StatementOutcomes : RoEnter(s)) =>
              /\ ro'.pc = "exited" /\ sres' = Delivered(NoConnectionError)
              /\ UNCHANGED <<oplog, rpcLog, executions, installed, func_id>>
        /\ (\E s \in StatementOutcomes, rb_ok, caught \in BOOLEAN :
                SpEnter(SpName(Len(sps)), s, rb_ok, caught)) =>
              /\ sps' = sps /\ sres' = Delivered(NoConnectionError)
              /\ UNCHANGED <<oplog, rpcLog, executions, installed, func_id>>
        /\ (\E bindable \in BOOLEAN : RfCall("t1", bindable)) =>
              /\ ~installed => (rres'["t1"] = Raised("NoConnection") /\ rcall' = rcall)
              /\ UNCHANGED <<oplog, rpcLog, installed, func_id>>
        /\ RfInvoke("t1") =>
              /\ rres'["t1"] = Raised("NoConnection")
              /\ rcall'["t1"] = Idle
              /\ UNCHANGED <<oplog, rpcLog, installed, func_id>>]_vars
\* an installed function was invoked without a connection
C19_Witness ==
    /\ Current = None
    /\ installed
    /\ func_id = "f1"
    /\ rres["t1"] = Raised("NoConnection")
    /\ rpcLog = <<>>

\* C20: an envelope with success=false makes the invocation raise a failure
\* that carries the envelope's detail, after exactly one invoke call for that
\* invocation, and leaves the function installed with its handle; an envelope
\* with success=true makes it return the envelope's payload.
C20_EnvelopeDecidesOutcome ==
    [][\A reply \in InvokeReplies : RfInvokeReturn("t1", reply) =>
          /\ installed /\ installed' /\ func_id' = func_id
          /\ rcall'["t1"] = Idle
          /\ Len(rpcLog') = Len(rpcLog)
          /\ Cardinality({j \in Invokes : rpcLog'[j].res = "pending"}) = 0
          /\ Cardinality({j \in Invokes : rpcLog[j].res = "pending"}) = 1
          /\ reply.kind = "failure" =>
                /\ rres'["t1"].kind = "error"
                /\ rres'["t1"].err = "ExecutionFailed"
                /\ rres'["t1"].value = reply.detail
          /\ reply.kind = "success" => rres'["t1"] = Returned(reply.payload)]_vars
\* an invocation failed with the detail d2 after one that succeeded
C20_Witness ==
    /\ rres["t1"] = [kind |-> "error", err |-> "ExecutionFailed", value |-> "d2"]
    /\ installed
    /\ Cardinality(Invokes) = 2
    /\ rpcLog[Len(rpcLog)].ev = "invoke"
    /\ rpcLog[Len(rpcLog)].res = "failure"
    /\ \E j \in Invokes : rpcLog[j].res = "success"

(* ------------------------------------------------------------------ *)
(* Claims on failed installation and on concurrent first invocations   *)
(* ------------------------------------------------------------------ *)

\* C21: when the install call of an invocation fails (the engine call raises,
\* or the reply carries no func_id), that invocation raises to its caller and
\* ends without an invoke call, and the function stays not installed with no
\* handle.
C21_FailedInstallReachesCaller ==
    [][\A reply \in InstallReplies :
          (reply.kind \in {"raise", "malformed"} /\ ~installed /\ func_id = None
           /\ RfInstallReturn("t1", reply)) =>
             /\ rres'["t1"].kind = "error"
             /\ rres'["t1"].err = (IF reply.kind = "raise" THEN "InstallError"
                                   ELSE "KeyError")
             /\ rcall'["t1"] = Idle
             /\ Len(rpcLog') = Len(rpcLog)
             /\ rpcLog'[Len(rpcLog')].ev = "install"
             /\ rpcLog'[Len(rpcLog')].res = reply.kind
             /\ ~installed'
             /\ func_id' = None]_vars
\* the first invocation's install reply carried no func_id: KeyError reached
\* the caller, nothing was invoked, nothing is installed
C21_Witness ==
    /\ calls = 1
    /\ rpcLog = <<Rpc("install", "t1", "A", None, "malformed")>>
    /\ rres["t1"] = Raised("KeyError")
    /\ rcall["t1"] = Idle
    /\ ~installed
    /\ func_id = None

\* two threads, each with a connection of its own (t1 on A, t2 on B), call the
\* same RemoteFunction object; __call__ takes no lock, so the calls interleave
\* at the install and invoke round trips
InitRace ==
    /\ stack = [t \in Threads |-> IF t = "t1" THEN <<"A">> ELSE <<"B">>]
    /\ hasStack = [t \in Threads |-> TRUE]
    /\ own = [t \in Threads |-> IF t = "t1" THEN <<"A">> ELSE <<"B">>]
    /\ ctxs = [t \in Threads |-> <<>>]
    /\ lastOp = [t \in Threads |-> Op("none", None, None, FALSE)]
    /\ pushed = [t \in Threads |-> <<>>]
    /\ popped = [t \in Threads |-> <<>>]
    /\ entries = [t \in Threads |-> <<>>]
    /\ TxnIdle
    /\ RfIdle
    /\ QIdle
    /\ ScIdle

NextRace ==
    \/ \E t \in Threads, bindable \in BOOLEAN : RfCall(t, bindable)
    \/ \E t \in Threads, reply \in InstallReplies : RfInstallReturn(t, reply)
    \/ \E t \in Threads : RfInvoke(t)
    \/ \E t \in Threads, reply \in InvokeReplies : RfInvokeReturn(t, reply)

SpecRace == InitRace /\ [][NextRace]_vars

\* C30: when two threads with connections of their own concurrently make the
\* first invocation of one remote function and no install call fails, the
\* install primitive is issued at most once in total, under every
\* interleaving, and all invoke calls carry the same handle.
C30_InstallOnceUnderRace ==
    (\A i \in Installs : rpcLog[i].res \in {"pending", "ok"}) =>
        /\ Cardinality(Installs) <= 1
        /\ \A i, j \in Invokes : rpcLog[i].h = rpcLog[j].h

(* ------------------------------------------------------------------ *)
(* The two execution modes side by side                                *)
(* ------------------------------------------------------------------ *)

\* one logical result, as each mode receives it: the engine returns its rows
\* as JSON objects keyed by column name in column order (json.loads keeps the
\* first place and the last value of a repeated key), the driver returns the
\* column descriptions and positional rows
LogicalResults ==
    {[cols |-> cols, rows |-> [i \in 1..Len(vs) |-> tuple_of(cols, vs[i])]] :
        cols \in ColumnSets \cup {<<"a", "a">>}, vs \in RowSeqs}
AsEngine(lr) ==
    EngineReply("ok", [i \in 1..Len(lr.rows) |-> dict_zip(lr.cols, lr.rows[i])],
                TRUE, Len(lr.rows))
AsDriver(lr) == DriverReply("ok", Some(lr.cols), lr.rows, Len(lr.rows))

\* the twin process constructs its cursor, executes, fetches
TwinInit ==
    LET r == init_connection(FALSE, None, get_connection("t1").ret) IN
    twin' = IF r.err = "None" THEN Twin(r.cur, Ret("init", "self", <<>>, <<>>, "None"))
            ELSE Twin(twin.cur, Ret("init", "error", <<>>, <<>>, r.err))
TwinExecute(stmt, parameters, reply) ==
    LET r == execute_client(twin.cur, stmt, parameters, reply) IN
    twin' = Twin(r.cur, IF r.err = "None" THEN Ret("execute", "self", <<>>, <<>>, "None")
                        ELSE Ret("execute", "error", <<>>, <<>>, r.err))
TwinFetch(r) == twin' = Twin(r.cur, r.ret)

\* a process in in-engine mode (cur) and one in external-client mode (twin)
\* make the same calls and receive the same logical results
InitModes ==
    /\ StartWith(<<"A">>)
    /\ TxnIdle
    /\ RfIdle
    /\ ScIdle
    /\ server_side = TRUE
    /\ cur = NoCursor
    /\ sent = <<>>
    /\ got = <<>>
    /\ qres = NoRet
    /\ ncalls = 0
    /\ twin = NoTwin

NextModes ==
    \/ ~cur.made /\ CursorInit("t1", None) /\ TwinInit
    \/ \E lr \in LogicalResults :
          Execute(PlainStmt, <<>>, AsEngine(lr)) /\ TwinExecute(PlainStmt, <<>>, AsDriver(lr))
    \/ Fetchone /\ TwinFetch(fetchone(twin.cur))
    \/ \E given \in BOOLEAN, size \in 0..(MaxRows + 1) :
          Fetchmany(given, size) /\ TwinFetch(fetchmany(twin.cur, given, size))
    \/ Fetchall /\ TwinFetch(fetchall(twin.cur))
    \/ FetchallDict /\ TwinFetch(fetchall_dict(twin.cur))
    \/ FetchoneDict /\ TwinFetch(fetchone_dict(twin.cur))

SpecModes == InitModes /\ [][NextModes]_vars

\* C22: after an execute that received the same logical result in both modes,
\* the two cursors hold the same sequence of row mappings at position 0, and
\* every same sequence of fetch calls afterwards returns the same values (and
\* leaves the same position) in both modes.
C22_ModeEquivalence ==
    (cur.made /\ twin.cur.made) =>
        /\ cur.results = twin.cur.results
        /\ cur.current_index = twin.cur.current_index
        /\ qres = twin.res
        /\ qres.call = "execute" => (cur.current_index = 0 /\ ~cur.results.none)
\* both modes executed twice and then returned, by fetchall, the two different
\* rows of the second result, whose two columns bear the same name
C22_Witness ==
    /\ cur.made /\ twin.cur.made
    /\ twin.cur.real_cursor = "A" /\ cur.real_cursor = None
    /\ Len(sent) = 2
    /\ qres.call = "fetchall"
    /\ Len(qres.tuples) = 2
    /\ qres.tuples[1] # qres.tuples[2]
    /\ Len(qres.tuples[1]) = 1
    /\ twin.res = qres

(* ------------------------------------------------------------------ *)
(* Claims on backoff, classification, rollback and termination         *)
(* ------------------------------------------------------------------ *)

\* how many sleeps the log holds up to its i-th entry
SleepsUpTo(i) == Cardinality({j \in 1..i : oplog[j].op = "sleep"})
\* the i-th entry of the log is an attempt that failed with a conflict marker
ConflictAt(i) ==
    /\ oplog[i].op \in {"work", "commit"}
    /\ oplog[i].res # "ok"
    /\ HasMarker(Failures[oplog[i].res].msg)

\* C23: the sleep after the a-th conflict-classified failure (a <= max_retries)
\* lasts retry_delay * 2^(a-1); every sleep stands between a failed attempt
\* (with its rollback) and the next attempt, so none comes before the first
\* attempt, after a success, after a non-retryable failure or after the
\* failure that exhausts the budget.
C23_BackoffDoubles ==
    TxnLeft =>
        \A i \in 1..Len(oplog) : oplog[i].op = "sleep" =>
            /\ oplog[i].arg = retry_delay * 2 ^ (SleepsUpTo(i) - 1)
            /\ SleepsUpTo(i) <= max_retries
            /\ i > 2 /\ oplog[i - 1].op = "rollback" /\ ConflictAt(i - 2)
            /\ i + 2 <= Len(oplog)
            /\ oplog[i + 1].op = "rollback" /\ oplog[i + 2].op = "work"

\* the five markers, as the documentation of the classifier lists them
Markers ==
    {SerializationFailure, DeadlockDetected, CannotExecute, ReadOnlyTransaction,
     CouldNotSerialize}
\* str.upper() of one character and of a text
upper_char(c) ==
    IF \E i \in 1..Len(LowerCase) : LowerCase[i] = c
    THEN UpperCase[CHOOSE i \in 1..Len(LowerCase) : LowerCase[i] = c]
    ELSE c
upper(s) == [i \in 1..Len(s) |-> upper_char(s[i])]
\* the two characters are the same letter, whatever their case, or the same sign
SameLetter(a, b) == a = b \/ upper_char(a) = b \/ a = upper_char(b)
\* the marker occurs in the message when letter case is ignored
OccursIn(marker, msg) ==
    \E i \in 0..(Len(msg) - Len(marker)) :
        \A k \in 1..Len(marker) : SameLetter(msg[i + k], marker[k])

\* messages around each marker: the marker itself, in capitals, capitalised,
\* inside a longer message, and two near misses (cut short, a space doubled)
Around(mk) ==
    LET sp == CHOOSE i \in 1..Len(mk) : mk[i] = " " /\ \A j \in 1..(i - 1) : mk[j] # " " IN
    { mk,
      upper(mk),
      <<upper_char(mk[1])>> \o SubSeq(mk, 2, Len(mk)),
      <<"E", "R", "R", "O", "R", ":", " ">> \o mk \o <<" ", "(", "4", "0", "P", "0", "1", ")">>,
      SubSeq(mk, 1, Len(mk) - 1),
      SubSeq(mk, 1, sp) \o <<" ">> \o SubSeq(mk, sp + 1, Len(mk)) }
SampleMessages == UNION {Around(mk) : mk \in Markers} \cup {<<>>, MsgBoom}
\* failures of several types, the library's own SerializationFailure included
SampleFailures ==
    {Exc(ty, msg, <<>>) : ty \in {"OperationalError", "SerializationFailure", "ValueError"},
                          msg \in SampleMessages}

\* the unit of work raises the failure e
UnitRaises(e) ==
    /\ pc = "body"
    /\ executions' = executions + 1
    /\ oplog' = Append(oplog, Work(executions + 1, "raised"))
    /\ pending' = e
    /\ pc' = "leaving"
    /\ UNCHANGED <<connVars, rfVars, qVars, scVars, max_retries, gen, script, result>>

\* a transaction scope whose unit of work raises one of the sample failures
InitClassify ==
    /\ StartWith(<<"A">>)
    /\ pc = "start"
    /\ max_retries \in 0..MaxRetries
    /\ script = <<>>
    /\ gen = [conn |-> None, attempt |-> 0, last_error |-> NoExc]
    /\ executions = 0
    /\ pending = NoExc
    /\ oplog = <<>>
    /\ result = NoResult
    /\ RfIdle
    /\ QIdle
    /\ ScIdle

NextClassify ==
    \/ TxnEnter
    \/ \E e \in SampleFailures : UnitRaises(e)
    \/ TxnExitError

SpecClassify == InitClassify /\ [][NextClassify]_vars

\* C24: the classifier answers true exactly for the failures whose message,
\* letter case ignored, holds one of the five markers, whatever the type of
\* the failure; the handler treats as a conflict (counts an attempt, sleeps or
\* raises TransactionRetryError) exactly those failures.
C24_ClassifierIsMarkerMatch ==
    (pc = "exited" /\ executions = 1) =>
        LET marked == \E mk \in Markers : OccursIn(mk, pending.msg) IN
        /\ is_retryable_error(pending) <=> marked
        /\ \A ty \in {"OperationalError", "SerializationFailure", "ValueError"} :
              is_retryable_error(Exc(ty, pending.msg, <<>>)) <=> marked
        /\ gen.attempt = (IF marked THEN 1 ELSE 0)
        /\ gen.last_error = (IF marked THEN pending ELSE NoExc)
        /\ (Sleeps # <<>>) <=> (marked /\ max_retries >= 1)
        /\ (result.err.type = "TransactionRetryError") <=> (marked /\ max_retries = 0)
        /\ ~marked => result.err = pending
\* a ValueError reading "READ-ONLY TRANSACTION" was classified as a conflict,
\* and so exhausted a budget of zero retries
C24_Witness ==
    /\ pc = "exited"
    /\ max_retries = 0
    /\ pending = Exc("ValueError", upper(ReadOnlyTransaction), <<>>)
    /\ result.err.type = "TransactionRetryError"

\* what the step appends to the log
Appended == SubSeq(oplog', Len(oplog) + 1, Len(oplog'))
\* the steps of a savepoint scope: entered with its SAVEPOINT statement
\* succeeding, left after a clean block, left by a failure of the block
SpEntered ==
    /\ \E s \in StatementOutcomes, rb_ok, caught \in BOOLEAN :
          SpEnter(SpName(Len(sps)), s, rb_ok, caught)
    /\ Len(sps') = Len(sps) + 1
SpLeftClean(rel) == \E caught \in BOOLEAN : SpExitNormal(rel, TRUE, caught)
SpLeftFailed == \E caught \in BOOLEAN : SpExitError(TRUE, caught)

InitNested ==
    /\ StartWith(<<"A">>)
    /\ pc = "start"
    /\ max_retries \in 0..MaxRetries
    /\ script = [i \in 1..(MaxRetries + 1) |-> "ok"]
    /\ gen = [conn |-> None, attempt |-> 0, last_error |-> NoExc]
    /\ executions = 0
    /\ pending = NoExc
    /\ oplog = <<>>
    /\ result = NoResult
    /\ RfIdle
    /\ QIdle
    /\ ScIdle

NextNested ==
    \/ TxnEnter
    \/ sps = <<>> /\ UnitOfWork
    \/ TxnExitNormal("ok")
    \/ TxnExitError
    \/ pc = "body" /\ SpEnter(SpName(Len(sps)), "ok", TRUE, FALSE)
    \/ \E outcome \in WorkOutcomes : SpWork(outcome)
    \/ SpExitNormal("ok", TRUE, FALSE)
    \/ SpExitError(TRUE, FALSE)

SpecNested == InitNested /\ [][NextNested]_vars

\* C26: a conflict-classified failure raised inside a savepoint scope within a
\* transaction scope, and not caught: the savepoint scope issues ROLLBACK TO
\* SAVEPOINT and passes the same failure on, without sleeping, counting an
\* attempt or running anything again; the transaction scope then issues its
\* full rollback and classifies that failure against its own budget: it counts
\* the attempt and either sleeps for the retry or raises TransactionRetryError.
C26_SavepointDelegatesRetry ==
    [][ /\ (SpExitError(TRUE, FALSE) /\ HasMarker(pending.msg)) =>
              /\ Appended = <<Statement(top(sps).conn, "ROLLBACK TO SAVEPOINT",
                                        top(sps).name, "ok")>>
              /\ pending' = pending
              /\ sres' = Delivered(pending)
              /\ UNCHANGED <<gen, executions, result>>
              /\ pc' = (IF Len(sps) = 1 THEN "leaving" ELSE "body")
        /\ (TxnExitError /\ HasMarker(pending.msg) /\ IsRollbackTo(top(oplog))) =>
              /\ top(oplog).name = "sp"
              /\ Len(Appended) >= 1
              /\ Appended[1] = Rollback(gen.conn)
              /\ gen'.attempt = gen.attempt + 1
              /\ gen'.last_error = pending
              /\ IF gen.attempt + 1 > max_retries
                 THEN /\ Appended = <<Rollback(gen.conn)>>
                      /\ result' = Delivered(TransactionRetryError(max_retries, pending))
                 ELSE /\ Len(Appended) >= 2
                      /\ Appended[2] = Sleep(retry_delay * 2 ^ gen.attempt) ]_vars
\* with no retries allowed, a conflict raised in the inner of two nested
\* savepoint scopes went through both and exhausted the transaction's budget
C26_Witness ==
    /\ pc = "exited"
    /\ max_retries = 0
    /\ result = Delivered(TransactionRetryError(0, Failures["serialize"]))
    /\ oplog = <<Rollback("A"),
                 Statement("A", "SAVEPOINT", "sp", "ok"),
                 Statement("A", "SAVEPOINT", "sp1", "ok"),
                 Work(1, "serialize"),
                 Statement("A", "ROLLBACK TO SAVEPOINT", "sp1", "ok"),
                 Statement("A", "ROLLBACK TO SAVEPOINT", "sp", "ok"),
                 Rollback("A")>>

\* the entries of the log that failed: executions of the unit of work that
\* raised and commits that raised
FailedAt == {i \in 1..Len(oplog) : oplog[i].op \in {"work", "commit"} /\ oplog[i].res # "ok"}

\* C27: whenever the scope hands an error to its caller after the unit of work
\* has started, a rollback on the scope's connection was issued after the last
\* failure (of the unit of work or of the commit) and it is the last commit or
\* rollback issued; and once an execution of the unit of work has raised, no
\* commit is issued any more.
C27_ErrorExitsEndInRollback ==
    /\ (TxnLeft /\ result.kind = "error") =>
          /\ FailedAt # {}
          /\ \E j \in 1..Len(oplog) :
                /\ \A i \in FailedAt : i < j
                /\ oplog[j] = Rollback(gen.conn)
                /\ \A k \in (j + 1)..Len(oplog) : oplog[k].op # "commit"
          /\ top(SelectSeq(oplog, Ends)) = Rollback(gen.conn)
    /\ \A i \in FailedAt : oplog[i].op = "work" =>
          \A k \in (i + 1)..Len(oplog) : oplog[k].op # "commit"
\* with one retry allowed, the unit of work completed, the commit raised a
\* conflict, and the scope, rolled back and mid-retry, handed an error on
C27_Witness ==
    /\ TxnLeft
    /\ max_retries = 1
    /\ result.kind = "error"
    /\ Len(oplog) >= 5
    /\ oplog[2] = Work(1, "ok")
    /\ oplog[3] = Commit("A", "serialize")
    /\ oplog[4] = Rollback("A")
    /\ oplog[5].op = "sleep"
    /\ top(oplog) = Rollback("A")

(* ------------------------------------------------------------------ *)
(* A remote function invoked inside a transaction scope                *)
(* ------------------------------------------------------------------ *)

\* f"Server-side execution failed: {result}": the fixed part, and the dict
\* printed with the detail under the key 'error'
TxtExecutionFailed ==
    <<"S", "e", "r", "v", "e", "r", "-", "s", "i", "d", "e", " ", "e", "x",
      "e", "c", "u", "t", "i", "o", "n", " ", "f", "a", "i", "l", "e", "d",
      ":", " ">>
TxtEnvelopeOpen ==
    <<"{", "'", "s", "u", "c", "c", "e", "s", "s", "'", ":", " ", "F", "a",
      "l", "s", "e", ",", " ", "'", "e", "r", "r", "o", "r", "'", ":", " ",
      "'">>
TxtEnvelopeClose == <<"'", "}">>
\* the texts of the engine's details: d1 names no conflict, d2 names one
DetailText == [d1 |-> MsgBoom, d2 |-> MsgDeadlockCaps]

\* a message that leaves the envelope out
failure_message_bare(reply) == TxtExecutionFailed
\* the message of the RuntimeError of line 176
failure_message(reply) ==
    TxtExecutionFailed \o TxtEnvelopeOpen \o DetailText[reply.detail] \o TxtEnvelopeClose

\* the exception a reply of the invoke primitive makes __call__ raise, if any
invoke_raises(reply) ==
    CASE reply.kind = "success" -> NoExc
      [] reply.kind = "failure" -> Exc("RuntimeError", failure_message(reply), <<>>)
      [] reply.kind = "raise" -> Failures["boom"]

\* the invoke primitive replies to a call made by the unit of work of the
\* transaction scope: a value lets the unit of work go on, a failure leaves it
UnitInvokeReturn(reply) ==
    /\ pc = "body"
    /\ rcall["t1"].st = "invoking"
    /\ rpcLog' = [rpcLog EXCEPT ![rcall["t1"].idx] = [@ EXCEPT !.res = reply.kind]]
    /\ rres' = [rres EXCEPT !["t1"] = invoke_reply(reply)]
    /\ rcall' = [rcall EXCEPT !["t1"] = Idle]
    /\ IF invoke_reply(reply).kind = "return"
       THEN UNCHANGED <<executions, oplog, pending, pc>>
       ELSE /\ executions' = executions + 1
            /\ oplog' = Append(oplog, Work(executions + 1, "raised"))
            /\ pending' = invoke_raises(reply)
            /\ pc' = "leaving"
    /\ UNCHANGED <<installed, func_id, calls, connVars, qVars, scVars, max_retries, gen,
                   script, result>>

\* a transaction scope of thread t1 whose unit of work calls a remote function
\* that an earlier call has installed
InitInvoking ==
    /\ \E c \in Handles : StartWith(<<c>>)
    /\ pc = "start"
    /\ max_retries \in 0..MaxRetries
    /\ script = [i \in 1..(MaxRetries + 1) |-> "ok"]
    /\ gen = [conn |-> None, attempt |-> 0, last_error |-> NoExc]
    /\ executions = 0
    /\ pending = NoExc
    /\ oplog = <<>>
    /\ result = NoResult
    /\ installed = TRUE
    /\ func_id \in FuncIds
    /\ rcall = [t \in Threads |-> Idle]
    /\ rres = [t \in Threads |-> [kind |-> "none", err |-> "None", value |-> None]]
    /\ rpcLog = <<>>
    /\ calls = 0
    /\ QIdle
    /\ ScIdle

NextInvoking ==
    \/ TxnEnter
    \/ pc = "body" /\ RfCall("t1", TRUE)
    \/ pc = "body" /\ RfInvoke("t1")
    \/ \E reply \in InvokeReplies : UnitInvokeReturn(reply)
    \/ rcall["t1"].st = "idle" /\ calls >= 1 /\ UnitOfWork
    \/ \E committed \in StatementOutcomes : TxnExitNormal(committed)
    \/ TxnExitError

SpecInvoking == InitInvoking /\ [][NextInvoking]_vars

\* C28: a failure envelope received by a call inside a transaction scope
\* raises a failure whose message holds the envelope's detail; the scope
\* treats it as a conflict (counts the attempt against its budget, then sleeps
\* for the retry or raises TransactionRetryError) exactly when the detail
\* holds a conflict marker, and otherwise rolls back once and re-raises that
\* failure, with no attempt counted and no sleep.
C28_InvocationFailureClassified ==
    [][(TxnExitError /\ rres["t1"].err = "ExecutionFailed") =>
          LET d == DetailText[rres["t1"].value] IN
          /\ pending.type = "RuntimeError"
          /\ contains(pending.msg, d)
          /\ Len(Appended) >= 1
          /\ Appended[1] = Rollback(gen.conn)
          /\ IF \E mk \in Markers : OccursIn(mk, d)
             THEN /\ gen'.attempt = gen.attempt + 1
                  /\ gen'.last_error = pending
                  /\ IF gen.attempt + 1 > max_retries
                     THEN /\ Appended = <<Rollback(gen.conn)>>
                          /\ result' = Delivered(TransactionRetryError(max_retries, pending))
                     ELSE /\ Len(Appended) >= 2
                          /\ Appended[2] = Sleep(retry_delay * 2 ^ gen.attempt)
             ELSE /\ Appended = <<Rollback(gen.conn)>>
                  /\ gen' = gen
                  /\ result' = Delivered(pending) ]_vars
\* after a call that succeeded, a second call in the same unit of work got the
\* detail d2 ("Deadlock Detected"); with no retries allowed the scope raised
\* TransactionRetryError
C28_Witness ==
    /\ pc = "exited"
    /\ max_retries = 0
    /\ calls = 2
    /\ rpcLog[1].res = "success"
    /\ rpcLog[2].res = "failure"
    /\ rres["t1"].value = "d2"
    /\ result.err.type = "TransactionRetryError"
    /\ top(oplog) = Rollback(gen.conn)

(* ------------------------------------------------------------------ *)
(* Termination of the transaction scope                                *)
(* ------------------------------------------------------------------ *)

\* the thread that entered the scope keeps running: the generator, the unit
\* of work (each of whose executions terminates) and the with statement all
\* take their next step
\* the units of work followed to the end: those that fail the same way on
\* their first k executions and return on every later one
InitTxnFair ==
    /\ InitTxn
    /\ \E k \in 0..(MaxRetries + 1), f \in FailureNames :
          script = [i \in 1..(MaxRetries + 1) |-> IF i <= k THEN f ELSE "ok"]

SpecTxnFair == InitTxnFair /\ [][NextTxn]_vars /\ WF_vars(NextTxn)

\* C29: for every max_retries and every unit of work a transaction scope
\* eventually exits; the unit of work is never executed more than
\* max_retries + 1 times and the attempt counter never exceeds
\* max_retries + 1; a scope that had a connection has executed the unit of
\* work at least once when it exits, and it exits either right after a
\* successful commit or with an error delivered to the caller.
C29_BoundedRetryTerminates ==
    /\ <>(pc = "exited")
    /\ [](/\ executions <= max_retries + 1
          /\ gen.attempt <= max_retries + 1)
    /\ []((pc = "exited" /\ gen.conn # None) =>
             /\ executions >= 1
             /\ result.kind \in {"ok", "error"}
             /\ result.kind = "ok" => top(oplog) = Commit(gen.conn, "ok"))
\* a scope that allows no retry has counted its one attempt and left with
\* TransactionRetryError after one execution: both bounds are reached
C29_Witness ==
    /\ pc = "exited"
    /\ max_retries = 0
    /\ executions = max_retries + 1
    /\ gen.attempt = max_retries + 1
    /\ result.kind = "error"
    /\ oplog[2].op = "work"

(* ------------------------------------------------------------------ *)
(* Claims on installation before binding                               *)
(* ------------------------------------------------------------------ *)

\* C32: a call whose arguments do not fit the signature, made with a current
\* connection: on a function not yet installed it issues the install
\* primitive, and once that has replied with a handle the function is
\* installed with the handle cached and the call raises the binding error
\* without an invoke primitive; on an installed function it issues no
\* primitive at all.
C32_InstallBeforeBinding ==
    [][/\ (/\ calls' = calls + 1
           /\ ~installed
           /\ get_connection("t1").ret # None
           /\ ~rcall'["t1"].bindable) =>
              /\ Len(rpcLog') = Len(rpcLog) + 1
              /\ top(rpcLog').ev = "install"
       /\ (/\ calls' = calls + 1
           /\ installed
           /\ ~rcall'["t1"].bindable) => rpcLog' = rpcLog
       /\ (/\ rcall["t1"].st = "installing"
           /\ ~rcall["t1"].bindable
           /\ rcall'["t1"].st = "ready") =>
              /\ installed'
              /\ func_id' \in FuncIds
              /\ Len(rpcLog') = Len(rpcLog)
       /\ (/\ rcall["t1"].st = "ready"
           /\ ~rcall["t1"].bindable
           /\ get_connection("t1").ret # None
           /\ rcall'["t1"].st # "ready") =>
              /\ rres'["t1"] = Raised("TypeError")
              /\ rcall'["t1"].st = "idle"
              /\ rpcLog' = rpcLog
              /\ installed /\ installed'
              /\ func_id \in FuncIds /\ func_id' = func_id ]_vars
\* the first call did not fit the signature: one install primitive, answered
\* with a handle, no invoke primitive, and the binding error raised
C32_Witness ==
    /\ calls = 1
    /\ rcall["t1"].st = "idle"
    /\ rres["t1"] = Raised("TypeError")
    /\ installed
    /\ func_id \in FuncIds
    /\ Len(rpcLog) = 1
    /\ rpcLog[1].ev = "install"
    /\ rpcLog[1].res = "ok"

(* ------------------------------------------------------------------ *)
(* Claims on a failed execute                                          *)
(* ------------------------------------------------------------------ *)

\* the step is a call of execute that raised
ExecuteRaised ==
    /\ ncalls' = ncalls + 1
    /\ qres'.call = "execute"
    /\ qres'.kind = "error"

\* C34: when the call made by execute raises (wormhole_query in the engine,
\* the driver's execute or fetchall in an external client), execute raises
\* that error and the cursor's rows, row count, description and position are
\* what they were before the call, so every fetch gives after it what it
\* would have given before it.
C34_FailedExecuteKeepsResult ==
    [][ExecuteRaised =>
          /\ qres'.err = IF server_side THEN "EngineError" ELSE "DriverError"
          /\ cur'.results = cur.results
          /\ cur'.rowcount = cur.rowcount
          /\ cur'.description = cur.description
          /\ cur'.current_index = cur.current_index
          /\ cur' = cur
          /\ fetchone(cur').ret = fetchone(cur).ret
          /\ fetchall(cur').ret = fetchall(cur).ret
          /\ got' = got ]_vars
\* in an external client an execute has given two rows or more, one was
\* fetched, and then a second execute raised: the cursor still stands after
\* the first row of the first result
C34_Witness ==
    /\ ~server_side
    /\ qres.call = "execute"
    /\ qres.kind = "error"
    /\ qres.err = "DriverError"
    /\ ~cur.results.none
    /\ Len(cur.results.val) >= 2
    /\ cur.current_index = 1
    /\ Len(got) = 1
    /\ Len(sent) = 3

(* ------------------------------------------------------------------ *)
(* Claims on when a savepoint scope rolls back to its savepoint        *)
(* ------------------------------------------------------------------ *)

\* the ROLLBACK TO SAVEPOINT statements among the entries e
RollbacksTo(e) ==
    {i \in 1..Len(e) : e[i].op = "execute" /\ e[i].sql = "ROLLBACK TO SAVEPOINT"}

\* C33: a savepoint scope issues ROLLBACK TO SAVEPOINT name only in a scope
\* whose SAVEPOINT statement succeeded and only because the unit of work
\* raised: the step that issues it leaves an entered scope with a failure of
\* the unit pending, and issues no failing SAVEPOINT or RELEASE SAVEPOINT
\* statement before it.
C33_RollbackToOnlyAfterUnitRaised ==
    [][RollbacksTo(Appended) # {} =>
          /\ sps # <<>>
          /\ pending # NoExc
          /\ RollbacksTo(Appended) = {1}
          /\ Len(Appended) = 1
          /\ Appended[1].name = top(sps).name ]_vars

(* ------------------------------------------------------------------ *)
(* Claims on what a connection_context leaves behind                   *)
(* ------------------------------------------------------------------ *)

\* C35: when a connection_context block ends, the caller's stack is the stack
\* the block found when it was entered and get_connection returns the handle
\* that was current then, whatever calls of set_connection and pop_connection
\* the block made.
C35_ContextRestoresStack ==
    [][Len(ctxs'["t1"]) < Len(ctxs["t1"]) =>
          /\ stack_of("t1")' = top(entries["t1"])
          /\ get_connection("t1").ret' =
                IF top(entries["t1"]) = <<>> THEN None ELSE top(top(entries["t1"])) ]_vars

(* ------------------------------------------------------------------ *)
(* A unit of work that changes the current connection                  *)
(* ------------------------------------------------------------------ *)

\* a transaction scope of thread t1 in an external client, entered with
\* connection A current; its unit of work sets and pops connections, opens
\* connection_context blocks, creates a cursor and executes on it, and calls a
\* remote function, before it returns or raises as the script says
InitSwitching ==
    /\ StartWith(<<"A">>)
    /\ pc = "start"
    /\ max_retries = MaxRetries
    /\ script \in {[i \in 1..(MaxRetries + 1) |-> o] : o \in WorkOutcomes}
    /\ gen = [conn |-> None, attempt |-> 0, last_error |-> NoExc]
    /\ executions = 0
    /\ pending = NoExc
    /\ oplog = <<>>
    /\ result = NoResult
    /\ RfIdle
    /\ QIdle
    /\ ScIdle

\* a step of the unit of work on the connection stack
Inside == pc = "body" /\ Track("t1")
\* a step of the unit of work on a cursor or on the remote function
Using == pc = "body"

NextSwitching ==
    \/ TxnEnter
    \/ \E h \in Handles : SetConnection("t1", h) /\ Inside
    \/ PopConnection("t1") /\ Inside
    \/ \E h \in Handles : ctxs["t1"] = <<>> /\ CtxEnter("t1", h) /\ Inside
    \/ CtxExit("t1", None) /\ Inside
    \/ Using /\ ~cur.made /\ Current # None /\ CursorInit("t1", None) /\ Alone
    \/ \E reply \in {DriverReply("raise_execute", NoneList, <<>>, -1),
                     DriverReply("ok", NoneList, <<>>, 1)} :
          Using /\ Len(sent) < 2 /\ Execute(PlainStmt, <<>>, reply) /\ Alone
    \/ Using /\ calls = 0 /\ Current # None /\ RfCall("t1", TRUE)
    \/ RfInstallReturn("t1", [kind |-> "ok", func_id |-> "f1", cached |-> FALSE])
    \/ RfInvoke("t1")
    \/ \E reply \in {Envelope("success", "p1", None), Envelope("failure", None, "d1")} :
          RfInvokeReturn("t1", reply)
    \/ rcall["t1"].st = "idle" /\ UnitOfWork
    \/ \E committed \in StatementOutcomes : TxnExitNormal(committed)
    \/ TxnExitError

SpecSwitching == InitSwitching /\ [][NextSwitching]_vars

\* what the step appends to the driver's log and to the rpc log
NewlySent == SubSeq(sent', Len(sent) + 1, Len(sent'))
NewRpcs == SubSeq(rpcLog', Len(rpcLog) + 1, Len(rpcLog'))

\* C31: the scope keeps the connection that was current when it was entered
\* and issues every rollback and commit on it, whatever the unit of work does
\* to the connection stack; a cursor created in the unit of work is created
\* on the connection current at its creation and executes on that one, and an
\* install or invoke call goes to the connection current when it is issued.
C31_ScopeKeepsItsConnection ==
    [][/\ (pc = "start" /\ pc' = "body") => gen'.conn = Current
       /\ pc # "start" => gen'.conn = gen.conn
       /\ \A i \in 1..Len(Appended) :
             Appended[i].op \in {"rollback", "commit"} => Appended[i].conn = gen'.conn
       /\ \A i \in 1..Len(NewlySent) :
             /\ NewlySent[i].call = "cursor" => NewlySent[i].conn = Current
             /\ NewlySent[i].call = "execute" => NewlySent[i].conn = cur.real_cursor
       /\ \A i \in 1..Len(NewRpcs) : NewRpcs[i].conn = Current ]_vars
\* entered with A current, the unit of work made B current, created a cursor
\* and executed on it and called the remote function: all of that went to B,
\* and the scope then committed on A
C31_Witness ==
    /\ pc = "exited"
    /\ result.kind = "ok"
    /\ gen.conn = "A"
    /\ Current = "B"
    /\ top(oplog) = Commit("A", "ok")
    /\ Len(sent) = 2
    /\ sent[1].call = "cursor" /\ sent[1].conn = "B"
    /\ sent[2].call = "execute" /\ sent[2].conn = "B"
    /\ Len(rpcLog) = 2
    /\ rpcLog[1].ev = "install" /\ rpcLog[1].conn = "B"
    /\ rpcLog[2].ev = "invoke" /\ rpcLog[2].conn = "B"

====
